---- MODULE Spec2Model ----
(***************************************************************************)
(* TopologyCollector: the telnet session protocol adapter of index.js.     *)
(* Text is a sequence of one-character strings, so that substring search,  *)
(* regular-expression tests, chunk boundaries and normalisation are        *)
(* computed the way the JavaScript computes them.                          *)
(***************************************************************************)
EXTENDS Integers, Sequences, FiniteSets, TLC

(***************************************************************************)
(* Text primitives (String.prototype / RegExp semantics)                   *)
(***************************************************************************)
UpperChars == <<"A", "B", "C", "D", "E", "F", "G", "H", "I", "J", "K", "L", "M", "N", "O", "P", "Q", "R", "S", "T", "U", "V", "W", "X", "Y", "Z">>
LowerChars == <<"a", "b", "c", "d", "e", "f", "g", "h", "i", "j", "k", "l", "m", "n", "o", "p", "q", "r", "s", "t", "u", "v", "w", "x", "y", "z">>
Digits == {"0", "1", "2", "3", "4", "5", "6", "7", "8", "9"}
Letters == {UpperChars[i] : i \in 1..26} \cup {LowerChars[i] : i \in 1..26}
\* \s of a JavaScript RegExp and the set String.prototype.trim removes
WhiteSpace == {" ", "\t", "\n", "\r", "\f"}
\* the characters "." does not match
LineTerminators == {"\n", "\r"}

\* String.prototype.toLowerCase on one character
LowerChar(c) ==
  IF \E i \in 1..26 : UpperChars[i] = c
  THEN LowerChars[CHOOSE i \in 1..26 : UpperChars[i] = c]
  ELSE c

toLowerCase(s) == [i \in 1..Len(s) |-> LowerChar(s[i])]

\* the literal lit occurs in s at (1-based) position pos; ci: case-insensitive
LitAt(s, pos, lit, ci) ==
  /\ pos >= 1
  /\ pos + Len(lit) - 1 <= Len(s)
  /\ \A j \in 1..Len(lit) :
       IF ci THEN LowerChar(s[pos + j - 1]) = LowerChar(lit[j])
             ELSE s[pos + j - 1] = lit[j]

\* every character of s from position pos to the end is white space (\s*$)
AllWS(s, pos) == \A j \in pos..Len(s) : s[j] \in WhiteSpace

\* String.prototype.indexOf: 0-based index of the first occurrence, -1 if none
indexOf(s, lit) ==
  IF \E i \in 1..(Len(s) + 1) : LitAt(s, i, lit, FALSE)
  THEN (CHOOSE i \in 1..(Len(s) + 1) :
          /\ LitAt(s, i, lit, FALSE)
          /\ \A k \in 1..(i - 1) : ~LitAt(s, k, lit, FALSE)) - 1
  ELSE -1

\* String.prototype.includes
includes(s, lit) == indexOf(s, lit) # -1

\* String.prototype.substring(from) with a 0-based index
substring(s, from) == SubSeq(s, from + 1, Len(s))

\* String.prototype.trim
trim(s) ==
  IF \A i \in 1..Len(s) : s[i] \in WhiteSpace THEN <<>>
  ELSE LET first == CHOOSE i \in 1..Len(s) :
                      s[i] \notin WhiteSpace /\ \A k \in 1..(i - 1) : s[k] \in WhiteSpace
           last  == CHOOSE i \in 1..Len(s) :
                      s[i] \notin WhiteSpace /\ \A k \in (i + 1)..Len(s) : s[k] \in WhiteSpace
       IN SubSeq(s, first, last)

\* A pagination pattern is a list of literal fragments joined by ".*" (which
\* does not cross a line terminator), matched case-insensitively anywhere in
\* the text; tail "wsEnd" stands for a closing \s*$ and "none" for no anchor
\* (a closing \s* without $ matches the empty string and constrains nothing).
RECURSIVE FragsMatch(_, _, _, _, _)
FragsMatch(frags, k, pos, tail, s) ==
  /\ LitAt(s, pos, frags[k], TRUE)
  /\ LET nxt == pos + Len(frags[k]) IN
       IF k = Len(frags)
       THEN tail = "wsEnd" => AllWS(s, nxt)
       ELSE \E q \in nxt..(Len(s) + 1) :
              /\ \A g \in nxt..(q - 1) : s[g] \notin LineTerminators
              /\ FragsMatch(frags, k + 1, q, tail, s)

\* RegExp.prototype.test for a pagination pattern
PatternTest(p, s) == \E i \in 1..(Len(s) + 1) : FragsMatch(p.frags, 1, i, p.tail, s)

\* index.js 646-654
dlinkPatterns == <<
  [frags |-> <<<<"Q", "u", "i", "t">>, <<"S", "P", "A", "C", "E">>, <<"N", "e", "x", "t">>, <<"P", "a", "g", "e">>>>, tail |-> "none"],
  [frags |-> <<<<"S", "P", "A", "C", "E">>, <<"n">>, <<"N", "e", "x", "t">>, <<"P", "a", "g", "e">>>>, tail |-> "none"],
  [frags |-> <<<<"E", "N", "T", "E", "R">>, <<"N", "e", "x", "t">>, <<"E", "n", "t", "r", "y">>, <<"a">>, <<"A", "l", "l">>>>, tail |-> "none"],
  [frags |-> <<<<"a", " ", "A", "l", "l">>>>, tail |-> "none"],
  [frags |-> <<<<"C", "T", "R", "L", "+", "C", " ", "E", "S", "C", " ", "q", " ", "Q", "u", "i", "t", " ", "S", "P", "A", "C", "E", " ", "n", " ", "N", "e", "x", "t", " ", "P", "a", "g", "e", " ", "E", "N", "T", "E", "R", " ", "N", "e", "x", "t", " ", "E", "n", "t", "r", "y", " ", "a", " ", "A", "l", "l">>>>, tail |-> "none"],
  [frags |-> <<<<"P", "r", "e", "s", "s", " ", "a", "n", "y", " ", "k", "e", "y", " ", "t", "o", " ", "c", "o", "n", "t", "i", "n", "u", "e", " ", "(", "Q", " ", "t", "o", " ", "q", "u", "i", "t", ")">>>>, tail |-> "none"],
  [frags |-> <<<<"C", "T", "R", "L", "+", "C", " ", "E", "S", "C", " ", "q", " ", "Q", "u", "i", "t", " ", "S", "P", "A", "C", "E", " ", "n", " ", "N", "e", "x", "t", " ", "P", "a", "g", "e">>>>, tail |-> "none"]
>>

\* index.js 657-665
standardPatterns == <<
  [frags |-> <<<<"-", "-", "M", "o", "r", "e", "-", "-">>>>, tail |-> "none"],
  [frags |-> <<<<"P", "r", "e", "s", "s", " ", "a", "n", "y", " ", "k", "e", "y", " ", "t", "o", " ", "c", "o", "n", "t", "i", "n", "u", "e">>>>, tail |-> "none"],
  [frags |-> <<<<"P", "r", "e", "s", "s", " ", "S", "P", "A", "C", "E", " ", "t", "o", " ", "c", "o", "n", "t", "i", "n", "u", "e">>>>, tail |-> "none"],
  [frags |-> <<<<"P", "r", "e", "s", "s", " ", "E", "n", "t", "e", "r", " ", "t", "o", " ", "c", "o", "n", "t", "i", "n", "u", "e">>>>, tail |-> "none"],
  [frags |-> <<<<"[", "P", "r", "e", "s", "s", " ", "'", "A", "'", " ", "f", "o", "r", " ", "A", "l", "l", " ", "o", "r", " ", "E", "N", "T", "E", "R", " ", "t", "o", " ", "c", "o", "n", "t", "i", "n", "u", "e", "]">>>>, tail |-> "none"],
  [frags |-> <<<<"T", "y", "p", "e", " ", "<", "C", "R", ">", " ", "t", "o", " ", "c", "o", "n", "t", "i", "n", "u", "e">>>>, tail |-> "none"],
  [frags |-> <<<<"M", "o", "r", "e">>>>, tail |-> "wsEnd"]
>>

(***************************************************************************)
(* Devices and profiles.  An absent text field (undefined) is the empty    *)
(* text: both are falsy for "||", and "?.toLowerCase()" of either differs  *)
(* from every brand name.  An absent object is Undefined and an absent or   *)
(* null number is NoNumber.                                                *)
(***************************************************************************)
Undefined == [defined |-> FALSE]
NoNumber == -1

tDLink == <<"d", "-", "l", "i", "n", "k">>
tDlinkNoDash == <<"d", "l", "i", "n", "k">>
tCisco == <<"c", "i", "s", "c", "o">>
tShell == <<"s", "h", "e", "l", "l">>
tExec == <<"e", "x", "e", "c">>
tSpace == <<" ">>
tA == <<"a">>
tCRLF == <<"\r", "\n">>
tLogout == <<"l", "o", "g", "o", "u", "t", "\r", "\n">>
tShellPrompt == <<"/", "[", "$", "%", "#", ">", "]", "/">>
tTerminalLength0 == <<"t", "e", "r", "m", "i", "n", "a", "l", " ", "l", "e", "n", "g", "t", "h", " ", "0">>
tShowConfigEffective == <<"s", "h", "o", "w", " ", "c", "o", "n", "f", "i", "g", " ", "e", "f", "f", "e", "c", "t", "i", "v", "e">>
tCommandLogout == <<"C", "o", "m", "m", "a", "n", "d", ":", " ", "l", "o", "g", "o", "u", "t">>

\* a default profile that reads through the raw stream
DefaultProfileShell ==
  [connectionMethod |-> tShell, paginationMethod |-> tExec, timeout |-> 30000,
   shellPrompt |-> tShellPrompt, requiresEnable |-> FALSE, paginationInput |-> tSpace,
   commandTimeout |-> 10000, execTimeout |-> 30000, shellTimeout |-> NoNumber]

\* the hardcoded default profile of getDeviceSettings
DefaultProfile ==
  [connectionMethod |-> tExec, paginationMethod |-> tExec, timeout |-> 30000,
   shellPrompt |-> tShellPrompt, requiresEnable |-> FALSE, paginationInput |-> tSpace,
   commandTimeout |-> 10000, execTimeout |-> 30000, shellTimeout |-> NoNumber]

TimeoutKeys == <<"timeout", "commandTimeout", "execTimeout", "shellTimeout">>

RECURSIVE ApplyTimeouts(_, _, _)

\* a loop that takes a timeout of 0 for an absent one
ApplyTimeoutsSkippingZero(base, device, k) ==
  IF k > Len(TimeoutKeys) THEN base
  ELSE LET key == TimeoutKeys[k] IN
       ApplyTimeouts(IF device[key] > 0 THEN [base EXCEPT ![key] = device[key]] ELSE base,
                     device, k + 1)

\* the loop of getDeviceSettings over the timeout-class keys
ApplyTimeouts(base, device, k) ==
  IF k > Len(TimeoutKeys) THEN base
  ELSE LET key == TimeoutKeys[k] IN
       ApplyTimeouts(IF device[key] # NoNumber THEN [base EXCEPT ![key] = device[key]] ELSE base,
                     device, k + 1)

\* a resolver that lays the timeout fields of the device over the override object too
getDeviceSettingsTimeoutsOnTop(device, settings) ==
  IF device.connectionSettings # Undefined THEN ApplyTimeouts(device.connectionSettings, device, 1)
  ELSE LET brand == IF device.brand # <<>> THEN device.brand ELSE device.vendor
           base  == IF brand \in DOMAIN settings THEN settings[brand] ELSE DefaultProfile
       IN ApplyTimeouts(base, device, 1)

\* getDeviceSettings: settings is the brandSettings map of the collector
getDeviceSettings(device, settings) ==
  IF device.connectionSettings # Undefined THEN device.connectionSettings
  ELSE LET brand == IF device.brand # <<>> THEN device.brand ELSE device.vendor
           base  == IF brand \in DOMAIN settings THEN settings[brand] ELSE DefaultProfile
       IN ApplyTimeouts(base, device, 1)

\* a base that is the brandSettings entry itself, not a copy of it: the
\* timeout fields of the device are written into the map
brandSettingsAfterAliased(device, settings) ==
  LET brand == IF device.brand # <<>> THEN device.brand ELSE device.vendor IN
  IF device.connectionSettings = Undefined /\ brand \in DOMAIN settings
  THEN [settings EXCEPT ![brand] = ApplyTimeouts(settings[brand], device, 1)]
  ELSE settings

\* this.brandSettings after getDeviceSettings(device): base is a spread copy
\* ({ ...this.brandSettings[brand] }) or a fresh literal, and only base is
\* assigned to
brandSettingsAfter(device, settings) ==
  settings

\* needsMoreInput: the pattern family is chosen by the lower-cased brand
patternsFor(device) ==
  LET brand == toLowerCase(device.brand)
  IN IF brand = tDLink \/ brand = tDlinkNoDash THEN dlinkPatterns
     ELSE standardPatterns

\* needsMoreInput: some pattern of the chosen family matches the output
needsMoreInput(output, device) ==
  LET patterns == patternsFor(device)
  IN \E i \in 1..Len(patterns) : PatternTest(patterns[i], output)

\* output.match(/[$%#>]\s*$/) of the raw-stream data handlers
PromptChars == {"$", "%", "#", ">"}
endsWithPromptAnywhere(output) ==
  \E i \in 1..Len(output) : output[i] \in PromptChars

endsWithPrompt(output) ==
  \E i \in 1..Len(output) : output[i] \in PromptChars /\ AllWS(output, i + 1)

\* s.replace(/[#$>]\s*$/, ''): the leftmost match runs to the end of the text
StripChars == {"#", "$", ">"}
stripTrailingPrompt(s) ==
  IF \E i \in 1..Len(s) : s[i] \in StripChars /\ AllWS(s, i + 1)
  THEN LET i == CHOOSE i \in 1..Len(s) :
                  /\ s[i] \in StripChars /\ AllWS(s, i + 1)
                  /\ \A k \in 1..(i - 1) : ~(s[k] \in StripChars /\ AllWS(s, k + 1))
       IN SubSeq(s, 1, i - 1)
  ELSE s

\* /DGS-\d+-\d+SC:[a-zA-Z]+[#$>]\s*$/ matches from position i to the end
DgsPromptAt(s, i) ==
  /\ LitAt(s, i, <<"D", "G", "S", "-">>, FALSE)
  /\ \E a \in (i + 5)..Len(s) : \E b \in (a + 2)..Len(s) : \E c \in (b + 4)..Len(s) :
       /\ \A j \in (i + 4)..(a - 1) : s[j] \in Digits
       /\ s[a] = "-"
       /\ \A j \in (a + 1)..(b - 1) : s[j] \in Digits
       /\ LitAt(s, b, <<"S", "C", ":">>, FALSE)
       /\ \A j \in (b + 3)..(c - 1) : s[j] \in Letters
       /\ s[c] \in StripChars
       /\ AllWS(s, c + 1)

\* s.replace(/DGS-\d+-\d+SC:[a-zA-Z]+[#$>]\s*$/, '')
stripDgsPrompt(s) ==
  IF \E i \in 1..Len(s) : DgsPromptAt(s, i)
  THEN LET i == CHOOSE i \in 1..Len(s) :
                  DgsPromptAt(s, i) /\ \A k \in 1..(i - 1) : ~DgsPromptAt(s, k)
       IN SubSeq(s, 1, i - 1)
  ELSE s

\* the echo removal cutting at the index found, found or not
removeEchoUnguarded(fullResult, command) ==
  LET commandIndex == indexOf(fullResult, command) IN
  substring(fullResult, commandIndex + Len(command))

\* the echo removal shared by both normalisers
removeEcho(fullResult, command) ==
  LET commandIndex == indexOf(fullResult, command) IN
  IF commandIndex # -1 THEN substring(fullResult, commandIndex + Len(command))
  ELSE fullResult

\* cleanShellResult
cleanShellResult(fullResult, command, device) ==
  LET brand == toLowerCase(device.brand)
      afterEcho == removeEcho(fullResult, command)
      afterDgs == IF brand = tDLink \/ brand = tDlinkNoDash THEN stripDgsPrompt(afterEcho)
                  ELSE afterEcho
  IN trim(stripTrailingPrompt(afterDgs))

\* the inline normalisation of the close handler of executeCommandForDLink
cleanDLinkResult(fullResult, command) ==
  trim(stripTrailingPrompt(stripDgsPrompt(removeEcho(fullResult, command))))

(***************************************************************************)
(* Inventories, brand profiles and device scripts the runs are drawn from  *)
(***************************************************************************)
tBrandDLink == <<"D", "-", "L", "i", "n", "k">>
tBrandHuawei == <<"H", "u", "a", "w", "e", "i">>
tBrandCisco == <<"C", "i", "s", "c", "o">>
tBrandBdcom == <<"B", "D", "C", "O", "M">>
tEnable == <<"e", "n", "a", "b", "l", "e">>
cmdCfg == <<"s", "h">>
cmdMac == <<"s", "m">>

\* a BrandProfile entry: the fields a brandSettings entry leaves out are absent
Profile(method, input) ==
  [connectionMethod |-> method, paginationMethod |-> <<>>, timeout |-> NoNumber,
   shellPrompt |-> <<>>, requiresEnable |-> FALSE, paginationInput |-> input,
   commandTimeout |-> NoNumber, execTimeout |-> NoNumber, shellTimeout |-> NoNumber]

\* loadBrandSettings: the built-in fallback map
FallbackBrandSettings ==
  [b \in {tBrandDLink, tBrandHuawei, tBrandCisco} |->
     IF b = tBrandDLink THEN Profile(tShell, tA) ELSE Profile(tExec, tSpace)]

\* a brandSettings.json that also holds a raw-stream profile for a second brand
FileBrandSettings ==
  [b \in {tBrandDLink, tBrandHuawei, tBrandCisco, tBrandBdcom} |->
     IF b = tBrandDLink THEN Profile(tShell, tA)
     ELSE IF b = tBrandBdcom THEN [Profile(tShell, tSpace) EXCEPT !.shellTimeout = 20000]
     ELSE IF b = tBrandCisco THEN [Profile(tExec, tSpace) EXCEPT !.requiresEnable = TRUE]
     ELSE Profile(tExec, tSpace)]

\* a DeviceSpec as loaded from the devices file
Device(ip, brand, vendor, config, mac) ==
  [ip |-> ip, brand |-> brand, vendor |-> vendor, connectionSettings |-> Undefined,
   timeout |-> NoNumber, commandTimeout |-> NoNumber, execTimeout |-> NoNumber,
   shellTimeout |-> NoNumber, inactivityTimeout |-> NoNumber,
   requiresEnable |-> FALSE, enableCommand |-> <<>>, appendMissingConfig |-> FALSE,
   paginationPrompts |-> Undefined,
   commands |-> [config |-> config, mac |-> mac]]

ip1 == <<"1", ".", "1">>
ip2 == <<"1", ".", "2">>

\* what a device sends for a command: the first page before anything is
\* written to it, each further page after one more write (the command, a
\* continuation keystroke, a logout) has reached it
Script(id, cmd) ==
  CASE id = "plain"  -> << <<>>, cmd \o <<"\r", "\n", "V", "e", "r", " ", "1", "\r", "\n", "s", "w", "#">> >>
    [] id = "paged"  -> << <<>>, cmd \o <<"\r", "\n", "a", "b", "\r", "\n", "-", "-", "M", "o", "r", "e", "-", "-">>, <<"c", "d", "\r", "\n", "s", "w", "#">> >>
    [] id = "echo"   -> << <<>>, cmd \o tCRLF >>
    [] id = "silent" -> << >>
    [] id = "empty"  -> << <<>>, <<>> >>
    [] id = "banner" -> << <<"W", "e", "l", "c", "o", "m", "e", " ", "t", "o", " ", "s", "w", "#">>, cmd \o <<"\r", "\n", "V", "e", "r", " ", "1", "\r", "\n", "s", "w", "#">> >>
    [] id = "prompt" -> << <<"s", "w", "#">>, cmd \o <<"\r", "\n", "V", "e", "r", " ", "1", "\r", "\n", "s", "w", "#">> >>
    [] id = "flood"  -> << <<>>, cmd \o tCRLF >>
    [] id = "pager"  -> << <<>>, <<"-", "-", "M", "o", "r", "e", "-", "-">> >>
    [] id \in {"dplain", "dcoarse"} -> << <<>>, cmd \o <<"\r", "\n", "V", "1", "\r", "\n", "D", "G", "S", "-", "1", "-", "2", "S", "C", ":", "a", "#">>, <<"\r", "\n", "b">> >>
    [] id = "dpaged" -> << <<>>, cmd \o <<"\r", "\n", "a", "b", "\r", "\n", "a", " ", "A", "l", "l">>, <<"c", "d", "\r", "\n", "D", "G", "S", "-", "1", "-", "2", "S", "C", ":", "a", "#">>, <<"\r", "\n", "b">> >>
    [] id = "dlong"  -> << <<>>, cmd \o <<"\r", "\n", "c", "o", "n", "f", "i", "g", " ", "v", "l", "a", "n", " ", "1", " ", "a", "d", "d", " ", "u", "n", "t", "a", "g", "g", "e", "d", " ", "1", "-", "2", "8", " ", "a", "d", "v", "e", "r", "t", "i", "s", "e", "m", "e", "n", "t", " ", "e", "n", "a", "b", "l", "e", "\r", "\n", "D", "G", "S", "-", "1", "-", "2", "S", "C", ":", "a", "#">>, <<"\r", "\n", "b">> >>

\* the scripts after which the device goes on sending: filler chunks on a raw
\* stream, its last reply again for every further request
EndlessScripts == {"flood", "pager"}

\* the scripts whose (long) output the transport delivers in full segments
CoarseScripts == {"dlong", "dcoarse"}

(***************************************************************************)
(* The D-Link scrubbing of MAC-table output in collectConfigs: each        *)
(* pattern is applied with String.prototype.replace(pattern, '') under the *)
(* g flag, scanning the text from left to right.                           *)
(***************************************************************************)
\* ^ under the m flag
AtLineStart(s, i) == i = 1 \/ s[i - 1] \in LineTerminators

\* the position after the last character ".*" can take from position i
LineEnd(s, i) ==
  IF \E j \in i..Len(s) : s[j] \in LineTerminators
  THEN CHOOSE j \in i..Len(s) :
         s[j] \in LineTerminators /\ \A k \in i..(j - 1) : s[k] \notin LineTerminators
  ELSE Len(s) + 1

\* the position after the longest run of characters of class from position i
RunEnd(s, i, class) ==
  IF \E j \in i..Len(s) : s[j] \notin class
  THEN CHOOSE j \in i..Len(s) : s[j] \notin class /\ \A k \in i..(j - 1) : s[k] \in class
  ELSE Len(s) + 1

ScrubPatterns == <<
  [kind |-> "line", lit |-> <<"#">>],
  [kind |-> "line", lit |-> <<"c", "o", "n", "f", "i", "g", " ">>],
  [kind |-> "line", lit |-> <<"c", "r", "e", "a", "t", "e", " ">>],
  [kind |-> "line", lit |-> <<"d", "i", "s", "a", "b", "l", "e", " ">>],
  [kind |-> "line", lit |-> <<"e", "n", "a", "b", "l", "e", " ">>],
  [kind |-> "wsline", lit |-> <<"D", "G", "S", "-">>],
  [kind |-> "toEnd", lit |-> tCommandLogout],
  [kind |-> "stars", lit |-> <<"L", "o", "g", "o", "u", "t">>]
>>
BlankLines == [kind |-> "blank", lit |-> <<>>]

\* where a match of pattern p that starts at position i ends (the position
\* after its last character), or 0 when no match starts at i
MatchEnd(p, s, i) ==
  CASE p.kind = "line" ->
         IF AtLineStart(s, i) /\ LitAt(s, i, p.lit, FALSE) THEN LineEnd(s, i) ELSE 0
    [] p.kind = "wsline" ->
         LET q == RunEnd(s, i, WhiteSpace) IN
         IF AtLineStart(s, i) /\ LitAt(s, q, p.lit, FALSE) THEN LineEnd(s, q) ELSE 0
    [] p.kind = "toEnd" ->
         IF LitAt(s, i, p.lit, FALSE) THEN Len(s) + 1 ELSE 0
    [] p.kind = "stars" ->
         LET a == RunEnd(s, i, {"*"})
             w == RunEnd(s, a, WhiteSpace)
             v == RunEnd(s, w + Len(p.lit), WhiteSpace)
         IN IF s[i] = "*" /\ LitAt(s, w, p.lit, FALSE) /\ v <= Len(s) /\ s[v] = "*"
            THEN RunEnd(s, v, {"*"}) ELSE 0
    [] p.kind = "blank" ->
         LET r == RunEnd(s, i, WhiteSpace) IN
         IF AtLineStart(s, i) /\ \E t \in i..(r - 1) : s[t] \in LineTerminators
         THEN 1 + CHOOSE t \in i..(r - 1) :
                    s[t] \in LineTerminators /\ \A k \in (t + 1)..(r - 1) : s[k] \notin LineTerminators
         ELSE 0

\* s.replace(p, '') under the g flag, from position i on
RECURSIVE ReplaceAll(_, _, _)
ReplaceAll(p, s, i) ==
  IF i > Len(s) THEN <<>>
  ELSE LET e == MatchEnd(p, s, i) IN
       IF e > 0 THEN ReplaceAll(p, s, e) ELSE <<s[i]>> \o ReplaceAll(p, s, i + 1)

\* configPatterns.forEach(pattern => cleanOutput = cleanOutput.replace(pattern, ''))
RECURSIVE ApplyScrub(_, _)
ApplyScrub(s, k) ==
  IF k > Len(ScrubPatterns) THEN s
  ELSE ApplyScrub(ReplaceAll(ScrubPatterns[k], s, 1), k + 1)

\* the D-Link clean-up of the MAC loop: patterns, empty lines, trim
scrubMacOutput(output) == trim(ReplaceAll(BlankLines, ApplyScrub(output, 1), 1))

(***************************************************************************)
(* State                                                                   *)
(***************************************************************************)
VARIABLES
  \* the collector: this.devices, this.brandSettings
  devices, brandSettings,
  \* what the devices of this run answer: the scripts a command may meet
  scripts,
  \* collectConfigs: position in the device loop, the awaited step, the open
  \* connection, commandIndex / totalCommands, the files written, the events
  di, opc, ci, connection, commandIndex, totalCommands, files, log,
  \* executeCommand: the reader variant in progress, its arguments, the
  \* number of the call within the session, the promise it returned
  rk, device, command, isLastCommand, callNo, outcome, value,
  \* executeCommandWithExec: position, result, attempts
  epc, result, attempts,
  \* raw-stream readers: the channel and the closure variables
  stream, fullResult, isComplete, commandTimeout, inactivityTimer,
  streamClosed, logoutSent, sendTimer, destroyTimer,
  \* everything written to the session by the current executeCommand call
  written,
  \* the device side of the current command: its script, whether it goes on
  \* sending once the script is exhausted, the shortest chunk the transport
  \* cuts its output into, and how much it sent
  pages, endless, minChunk, cursor,
  \* history: the completion triggers that took effect, the stream.destroy()
  \* calls, and whether the channel reported an error
  completedBy, destroys, errored,
  \* the command-send timers of earlier commands of this device run that
  \* were still armed when the next command started (for each, whether its
  \* channel was still writable), and the writes they made since
  stale, late,
  \* connectToDevice: the settings it computed for the device
  effective,
  \* runForAllJsonFiles: the data directory, the filtered list, the position
  \* in the loop, the awaited step, and what the run printed for each file
  dataDir, jsonFiles, fileIndex, bpc, batchLog

batchVars == <<dataDir, jsonFiles, fileIndex, bpc, batchLog>>
invVars == <<devices, brandSettings, scripts, batchVars>>
orchVars == <<di, opc, ci, connection, commandIndex, totalCommands, files, log>>
runVars == <<di, opc, ci, connection, commandIndex, totalCommands, files>>
callVars == <<rk, device, command, isLastCommand, callNo>>
promVars == <<outcome, value>>
execVars == <<epc, result, attempts>>
streamVars == <<stream, fullResult, isComplete, commandTimeout, inactivityTimer,
                streamClosed, logoutSent, sendTimer, destroyTimer>>
devVars == <<pages, endless, minChunk, cursor>>
ghostVars == <<completedBy, destroys, errored>>
staleVars == <<stale, late>>
connVars == <<effective>>
vars == <<devices, brandSettings, scripts,
          di, opc, ci, connection, commandIndex, totalCommands, files, log,
          rk, device, command, isLastCommand, callNo, outcome, value,
          epc, result, attempts,
          stream, fullResult, isComplete, commandTimeout, inactivityTimer,
          streamClosed, logoutSent, sendTimer, destroyTimer,
          written, pages, endless, minChunk, cursor, completedBy, destroys, errored,
          stale, late, effective, batchVars>>

\* no batch run: the collector was started by main()
BatchIdle ==
  /\ dataDir = Undefined
  /\ jsonFiles = <<>>
  /\ fileIndex = 0
  /\ bpc = "none"
  /\ batchLog = <<>>
(***************************************************************************)
(* Bounds                                                                  *)
(***************************************************************************)
\* the longest chunk the transport delivers in one data event
MaxChunk == 8
\* how much of an endless stream the accumulator is followed for
MaxAccum == 40

\* const maxAttempts = 200 of executeCommandWithExec
maxAttempts == 200

Min(a, b) == IF a < b THEN a ELSE b

Scenarios == {
  [devices |-> <<Device(ip1, tBrandBdcom, <<>>, <<cmdCfg>>, <<>>)>>,
   settings |-> FileBrandSettings,
   scripts |-> {"plain", "paged", "echo", "silent", "banner", "prompt", "flood"}],
  [devices |-> <<Device(ip1, tBrandDLink, <<>>, <<cmdCfg>>, <<>>)>>,
   settings |-> FallbackBrandSettings,
   scripts |-> {"dplain", "dpaged", "echo", "silent", "banner", "flood"}],
  [devices |-> <<Device(ip1, tBrandHuawei, <<>>, <<cmdCfg>>, <<>>)>>,
   settings |-> FallbackBrandSettings,
   scripts |-> {"plain", "paged", "pager"}],
  [devices |-> <<Device(ip1, tBrandHuawei, <<>>, <<cmdCfg>>, <<cmdMac>>)>>,
   settings |-> FallbackBrandSettings,
   scripts |-> {"plain", "empty"}],
  [devices |-> <<Device(ip1, tBrandDLink, <<>>, <<cmdCfg>>, <<cmdMac>>)>>,
   settings |-> FallbackBrandSettings,
   scripts |-> {"dcoarse", "silent"}],
  [devices |-> <<[Device(ip1, tBrandDLink, <<>>, <<cmdCfg>>, <<>>) EXCEPT !.appendMissingConfig = TRUE]>>,
   settings |-> FallbackBrandSettings,
   scripts |-> {"dlong", "silent"}],
  [devices |-> <<[Device(ip1, tBrandCisco, <<>>, <<cmdCfg>>, <<>>) EXCEPT !.enableCommand = tEnable],
                 Device(ip2, <<>>, tBrandBdcom, <<cmdCfg>>, <<cmdMac>>)>>,
   settings |-> FileBrandSettings,
   scripts |-> {"plain", "echo"}],
  [devices |-> <<Device(ip1, tBrandCisco, <<>>, <<cmdCfg>>, <<>>)>>,
   settings |-> FileBrandSettings,
   scripts |-> {"plain"}],
  [devices |-> <<[Device(ip1, tBrandDLink, <<>>, <<cmdCfg>>, <<cmdMac>>) EXCEPT !.appendMissingConfig = TRUE]>>,
   settings |-> FallbackBrandSettings,
   scripts |-> {"dlong"}],
  [devices |-> <<[Device(ip1, tBrandDLink, <<>>, <<cmdCfg>>, <<>>)
                    EXCEPT !.connectionSettings = Profile(tShell, tSpace)]>>,
   settings |-> FallbackBrandSettings,
   scripts |-> {"dpaged"}],
  [devices |-> <<[Device(ip1, tBrandHuawei, <<>>, <<cmdCfg>>, <<>>)
                    EXCEPT !.timeout = 7000, !.execTimeout = 0],
                 Device(ip2, tBrandHuawei, <<>>, <<cmdCfg>>, <<>>)>>,
   settings |-> FallbackBrandSettings,
   scripts |-> {"plain"}],
  [devices |-> <<Device(ip1, <<>>, tBrandDLink, <<cmdCfg>>, <<>>)>>,
   settings |-> FallbackBrandSettings,
   scripts |-> {"dplain"}]
}

(***************************************************************************)
(* Init: a collector after init(), before collectConfigs                   *)
(***************************************************************************)
Init ==
  /\ \E sc \in Scenarios :
       /\ devices = sc.devices
       /\ brandSettings = sc.settings
       /\ scripts = sc.scripts
  /\ di = 1
  /\ opc = IF Len(devices) = 0 THEN "done" ELSE "connect"
  /\ ci = 1
  /\ connection = "null"
  /\ commandIndex = 0
  /\ totalCommands = 0
  /\ files = [n \in {} |-> <<>>]
  /\ log = <<>>
  /\ rk = "none"
  /\ device = Undefined
  /\ command = <<>>
  /\ isLastCommand = FALSE
  /\ callNo = 0
  /\ outcome = "none"
  /\ value = <<>>
  /\ epc = "none"
  /\ result = <<>>
  /\ attempts = 0
  /\ stream = "none"
  /\ fullResult = <<>>
  /\ isComplete = FALSE
  /\ commandTimeout = FALSE
  /\ inactivityTimer = FALSE
  /\ streamClosed = FALSE
  /\ logoutSent = FALSE
  /\ sendTimer = FALSE
  /\ destroyTimer = "none"
  /\ written = <<>>
  /\ pages = <<>>
  /\ endless = FALSE
  /\ minChunk = 1
  /\ cursor = 0
  /\ completedBy = <<>>
  /\ destroys = 0
  /\ errored = FALSE
  /\ stale = <<>>
  /\ late = <<>>
  /\ effective = Undefined
  /\ BatchIdle

(***************************************************************************)
(* Helpers of the actions                                                  *)
(***************************************************************************)
Dev == devices[di]

\* (device.brand || device.vendor || '').toLowerCase() of collectConfigs
orchBrand(d) == toLowerCase(IF d.brand # <<>> THEN d.brand ELSE d.vendor)

Ev(e, cmd, last, n) == [ev |-> e, dev |-> di, cmd |-> cmd, last |-> last, n |-> n]

\* `${device.ip.replace(/\./g, '_')}` followed by the extension
fileName(ip, ext) == [i \in 1..Len(ip) |-> IF ip[i] = "." THEN "_" ELSE ip[i]] \o ext
extCfg == <<".", "c", "f", "g">>
extMac == <<".", "m", "a", "c">>

\* fs.writeFile
writeFile(fs, name, content) ==
  [n \in (DOMAIN fs) \cup {name} |-> IF n = name THEN content ELSE fs[n]]

\* a write to the channel, and whether the channel was still open for it
W(kind, text) == [kind |-> kind, text |-> text, live |-> stream = "open"]

\* resolve / reject of the promise: only the first settles it
Settle(o, v) ==
  IF outcome = "pending" THEN outcome' = o /\ value' = v
  ELSE UNCHANGED <<outcome, value>>

\* stream.destroy()
Destroy ==
  /\ stream' = IF stream = "open" THEN "destroyed" ELSE stream
  /\ destroys' = destroys + 1

\* the device: the pages released by the writes that reached it so far
Released ==
  Min(Len(pages),
      1 + Cardinality({i \in DOMAIN written : written[i].live}))

RECURSIVE Flatten(_, _)
Flatten(ps, k) == IF k = 0 THEN <<>> ELSE Flatten(ps, k - 1) \o ps[k]

\* the chunks the next data event may carry (a data event is never empty)
NextChunks ==
  LET flat == Flatten(pages, Released)
      rest == Len(flat) - cursor
  IN
  {SubSeq(flat, cursor + 1, cursor + n) :
     n \in {m \in Min(minChunk, rest)..Min(MaxChunk, rest) : m >= 1}}
    \cup (IF endless /\ Released = Len(pages) /\ cursor = Len(flat) THEN {<<"x">>} ELSE {})

\* fullResult += output (an endless stream is followed up to MaxAccum)
Accumulate(output) ==
  IF cursor < Len(Flatten(pages, Released)) \/ Len(fullResult) < MaxAccum
  THEN fullResult \o output ELSE fullResult

CursorAfter(output) ==
  IF cursor < Len(Flatten(pages, Released)) THEN cursor + Len(output) ELSE cursor

\* the reply of the k-th connection.exec of the current command
execReply(k) ==
  IF k + 1 <= Len(pages) THEN pages[k + 1]
  ELSE IF endless /\ Len(pages) > 0 THEN pages[Len(pages)] ELSE <<>>

(***************************************************************************)
(* executeCommand: dispatch to a reader variant                            *)
(***************************************************************************)
readerFor(d) ==
  LET settings == getDeviceSettings(d, brandSettings)
      connectionMethod == IF settings.connectionMethod # <<>> THEN settings.connectionMethod
                          ELSE tExec
  IN IF connectionMethod = tShell
     THEN IF toLowerCase(d.brand) = tDLink THEN "dlink" ELSE "shell"
     ELSE "exec"

\* the call executeCommand(connection, cmd, device, last): the chosen reader
\* starts with fresh closure variables, and the device picks what it answers
executeCommand(cmd, last) ==
  /\ rk' = readerFor(Dev)
  /\ device' = Dev
  /\ command' = cmd
  /\ isLastCommand' = last
  /\ callNo' = callNo + 1
  /\ outcome' = "pending"
  /\ value' = <<>>
  /\ epc' = IF readerFor(Dev) = "exec" THEN "send" ELSE "none"
  /\ result' = <<>>
  /\ attempts' = 0
  /\ stream' = IF readerFor(Dev) = "exec" THEN "none" ELSE "opening"
  /\ fullResult' = <<>>
  /\ isComplete' = FALSE
  /\ commandTimeout' = FALSE
  /\ inactivityTimer' = FALSE
  /\ streamClosed' = FALSE
  /\ logoutSent' = FALSE
  /\ sendTimer' = FALSE
  /\ destroyTimer' = "none"
  /\ written' = <<>>
  /\ \E id \in scripts :
       /\ pages' = Script(id, cmd)
       /\ endless' = (id \in EndlessScripts)
       /\ minChunk' = IF id \in CoarseScripts THEN MaxChunk ELSE 1
  /\ cursor' = 0
  /\ completedBy' = <<>>
  /\ destroys' = 0
  /\ errored' = FALSE
  /\ stale' = IF sendTimer THEN Append(stale, stream = "open") ELSE stale
  /\ late' = late

readerVars == <<rk, device, command, isLastCommand, callNo, outcome, value,
                epc, result, attempts,
                stream, fullResult, isComplete, commandTimeout, inactivityTimer,
                streamClosed, logoutSent, sendTimer, destroyTimer,
                written, pages, endless, minChunk, cursor, completedBy, destroys, errored,
                stale, late>>

(***************************************************************************)
(* collectConfigs                                                          *)
(***************************************************************************)
\* a total that does not count the remediation command
TotalWithoutRemediation(d) ==
  Len(d.commands.config) + Len(d.commands.mac)

\* totalCommands of one device
Total(d) ==
  Len(d.commands.config) + Len(d.commands.mac)
    + (IF orchBrand(d) = tDLink /\ d.appendMissingConfig THEN 1 ELSE 0)

\* where the device run goes on: the MAC loop, the remediation command, the
\* configuration loop
PhaseMac(d, i) == IF i <= Len(d.commands.mac) THEN "mac" ELSE "finally"
PhaseAppend(d) ==
  IF orchBrand(d) = tDLink /\ d.appendMissingConfig THEN "append" ELSE PhaseMac(d, 1)
PhaseConfig(d, i) == IF i <= Len(d.commands.config) THEN "config" ELSE PhaseAppend(d)

\* lines 767-773: totalCommands, commandIndex = 0, then the configuration loop
BeginCommands ==
  /\ totalCommands' = Total(Dev)
  /\ commandIndex' = 0
  /\ ci' = 1
  /\ opc' = PhaseConfig(Dev, 1)

\* after connectToDevice returned the connection
AfterLogin ==
  IF orchBrand(Dev) = tCisco
  THEN opc' = "cisco" /\ UNCHANGED <<totalCommands, commandIndex, ci>>
  ELSE BeginCommands

\* a connection failure that escapes the device loop
ConnectFailureEndsBatch ==
  /\ opc = "connect"
  /\ effective' = getDeviceSettings(Dev, brandSettings)
  /\ \E ok \in BOOLEAN :
       IF ok
       THEN /\ connection' = "open"
            /\ callNo' = 0
            /\ LET settings == effective' IN
               IF (settings.requiresEnable \/ Dev.requiresEnable) /\ Dev.enableCommand # <<>>
               THEN opc' = "enable" /\ UNCHANGED <<totalCommands, commandIndex, ci>>
               ELSE AfterLogin
            /\ log' = Append(log, Ev("connected", <<>>, FALSE, 0))
       ELSE /\ opc' = "done"
            /\ log' = Append(log, Ev("connectFailed", <<>>, FALSE, 0))
            /\ UNCHANGED <<connection, callNo, totalCommands, commandIndex, ci>>
  /\ stale' = <<>> /\ late' = <<>>
  /\ brandSettings' = brandSettingsAfter(Dev, brandSettings)
  /\ UNCHANGED <<devices, scripts, batchVars, di, files>>
  /\ UNCHANGED <<rk, device, command, isLastCommand, outcome, value, execVars, streamVars,
                 written, devVars, ghostVars>>

\* connectToDevice up to connection.connect(params)
Connect ==
  /\ opc = "connect"
  /\ effective' = getDeviceSettings(Dev, brandSettings)
  /\ \E ok \in BOOLEAN :
       IF ok
       THEN /\ connection' = "open"
            /\ callNo' = 0
            /\ LET settings == effective' IN
               IF (settings.requiresEnable \/ Dev.requiresEnable) /\ Dev.enableCommand # <<>>
               THEN opc' = "enable" /\ UNCHANGED <<totalCommands, commandIndex, ci>>
               ELSE AfterLogin
            /\ log' = Append(log, Ev("connected", <<>>, FALSE, 0))
       ELSE /\ opc' = "finally"
            /\ log' = Append(log, Ev("connectFailed", <<>>, FALSE, 0))
            /\ UNCHANGED <<connection, callNo, totalCommands, commandIndex, ci>>
  /\ stale' = <<>> /\ late' = <<>>
  /\ brandSettings' = brandSettingsAfter(Dev, brandSettings)
  /\ UNCHANGED <<devices, scripts, batchVars, di, files>>
  /\ UNCHANGED <<rk, device, command, isLastCommand, outcome, value, execVars, streamVars,
                 written, devVars, ghostVars>>

\* a privileged-mode entry whose failure is thrown to collectConfigs
EnableFailurePropagates ==
  /\ opc = "enable"
  /\ \E ok \in BOOLEAN :
       /\ log' = Append(log, Ev(IF ok THEN "enabled" ELSE "enableFailed", Dev.enableCommand, FALSE, 0))
       /\ IF ok THEN AfterLogin
          ELSE opc' = "finally" /\ UNCHANGED <<totalCommands, commandIndex, ci>>
  /\ UNCHANGED <<invVars, connVars, di, connection, files, readerVars>>

\* connectToDevice: the privileged-mode entry, its failure tolerated
Enable ==
  /\ opc = "enable"
  /\ \E ok \in BOOLEAN :
       log' = Append(log, Ev(IF ok THEN "enabled" ELSE "enableFailed", Dev.enableCommand, FALSE, 0))
  /\ AfterLogin
  /\ UNCHANGED <<invVars, connVars, di, connection, files, readerVars>>

\* Cisco: 'terminal length 0' before the commands
CiscoStart ==
  /\ opc = "cisco"
  /\ executeCommand(tTerminalLength0, FALSE)
  /\ opc' = "ciscoWait"
  /\ log' = Append(log, Ev("start", tTerminalLength0, FALSE, 0))
  /\ UNCHANGED <<invVars, connVars, di, ci, connection, commandIndex, totalCommands, files>>

CiscoFinish ==
  /\ opc = "ciscoWait"
  /\ outcome \in {"resolved", "rejected"}
  /\ log' = log \o (IF outcome = "resolved"
                    THEN <<Ev("ok", command, FALSE, 0), Ev("sleep", command, FALSE, 0)>>
                    ELSE <<Ev("failed", command, FALSE, 0)>>)
  /\ BeginCommands
  /\ UNCHANGED <<invVars, connVars, di, connection, files, readerVars>>

\* the configuration loop: one iteration up to the await
ConfigStart ==
  /\ opc = "config"
  /\ LET cmd == Dev.commands.config[ci]
         last == (commandIndex + 1 = totalCommands)
     IN /\ commandIndex' = commandIndex + 1
        /\ executeCommand(cmd, last)
        /\ log' = Append(log, Ev("start", cmd, last, 0))
  /\ opc' = "configWait"
  /\ UNCHANGED <<invVars, connVars, di, ci, connection, totalCommands, files>>

\* a failed configuration command that ends the device run
ConfigFinishAbortsDevice ==
  /\ opc = "configWait"
  /\ outcome \in {"resolved", "rejected"}
  /\ LET last == (commandIndex = totalCommands) IN
     IF outcome = "resolved"
     THEN /\ files' = writeFile(files, fileName(Dev.ip, extCfg), value)
          /\ log' = log \o <<Ev("saved", command, last, Len(value))>>
                        \o (IF ~last THEN <<Ev("sleep", command, last, 0)>> ELSE <<>>)
     ELSE /\ log' = Append(log, Ev("failed", command, last, 0))
          /\ UNCHANGED files
  /\ opc' = IF outcome = "rejected" THEN "finally" ELSE PhaseConfig(Dev, ci + 1)
  /\ ci' = IF ci + 1 <= Len(Dev.commands.config) THEN ci + 1 ELSE 1
  /\ UNCHANGED <<invVars, connVars, di, connection, commandIndex, totalCommands, readerVars>>

\* the configuration loop: after the await
ConfigFinish ==
  /\ opc = "configWait"
  /\ outcome \in {"resolved", "rejected"}
  /\ LET last == (commandIndex = totalCommands) IN
     IF outcome = "resolved"
     THEN /\ files' = writeFile(files, fileName(Dev.ip, extCfg), value)
          /\ log' = log \o <<Ev("saved", command, last, Len(value))>>
                        \o (IF ~last THEN <<Ev("sleep", command, last, 0)>> ELSE <<>>)
     ELSE /\ log' = Append(log, Ev("failed", command, last, 0))
          /\ UNCHANGED files
  /\ opc' = PhaseConfig(Dev, ci + 1)
  /\ ci' = IF ci + 1 <= Len(Dev.commands.config) THEN ci + 1 ELSE 1
  /\ UNCHANGED <<invVars, connVars, di, connection, commandIndex, totalCommands, readerVars>>

\* the D-Link remediation command: up to the await
AppendStart ==
  /\ opc = "append"
  /\ LET last == (commandIndex + 1 = totalCommands) IN
       /\ commandIndex' = commandIndex + 1
       /\ executeCommand(tShowConfigEffective, last)
       /\ log' = Append(log, Ev("start", tShowConfigEffective, last, 0))
  /\ opc' = "appendWait"
  /\ UNCHANGED <<invVars, connVars, di, ci, connection, totalCommands, files>>

\* the D-Link remediation command: after the await
AppendFinish ==
  /\ opc = "appendWait"
  /\ outcome \in {"resolved", "rejected"}
  /\ LET last == (commandIndex = totalCommands)
         name == fileName(Dev.ip, extCfg)
         meaningful == Len(value) > 50 /\ ~includes(value, tCommandLogout)
     IN
     IF outcome = "rejected"
     THEN /\ log' = Append(log, Ev("failed", command, last, 0))
          /\ UNCHANGED files
     ELSE IF meaningful /\ name \notin DOMAIN files
     THEN \* fs.readFile throws: caught, no pause
          /\ log' = Append(log, Ev("failed", command, last, 0))
          /\ UNCHANGED files
     ELSE /\ files' = IF meaningful
                      THEN writeFile(files, name, files[name] \o <<"\n">> \o value)
                      ELSE files
          /\ log' = log \o <<Ev(IF meaningful THEN "appended" ELSE "ok", command, last,
                                IF meaningful THEN Len(value) ELSE 0)>>
                        \o (IF ~last THEN <<Ev("sleep", command, last, 0)>> ELSE <<>>)
  /\ opc' = PhaseMac(Dev, 1)
  /\ ci' = 1
  /\ UNCHANGED <<invVars, connVars, di, connection, commandIndex, totalCommands, readerVars>>

\* the MAC loop: one iteration up to the await
MacStart ==
  /\ opc = "mac"
  /\ LET cmd == Dev.commands.mac[ci]
         last == (commandIndex + 1 = totalCommands)
     IN /\ commandIndex' = commandIndex + 1
        /\ executeCommand(cmd, last)
        /\ log' = Append(log, Ev("start", cmd, last, 0))
  /\ opc' = "macWait"
  /\ UNCHANGED <<invVars, connVars, di, ci, connection, totalCommands, files>>

\* a MAC loop that pauses after every saved table
MacFinishAlwaysPauses ==
  /\ opc = "macWait"
  /\ outcome \in {"resolved", "rejected"}
  /\ LET last == (commandIndex = totalCommands)
         cleanOutput == IF orchBrand(Dev) = tDLink THEN scrubMacOutput(value) ELSE value
     IN
     IF outcome = "resolved"
     THEN /\ files' = writeFile(files, fileName(Dev.ip, extMac), cleanOutput)
          /\ log' = log \o <<Ev("saved", command, last, Len(cleanOutput))>>
                        \o <<Ev("sleep", command, last, 0)>>
     ELSE /\ log' = Append(log, Ev("failed", command, last, 0))
          /\ UNCHANGED files
  /\ opc' = PhaseMac(Dev, ci + 1)
  /\ ci' = ci + 1
  /\ UNCHANGED <<invVars, connVars, di, connection, commandIndex, totalCommands, readerVars>>

\* the MAC loop: after the await
MacFinish ==
  /\ opc = "macWait"
  /\ outcome \in {"resolved", "rejected"}
  /\ LET last == (commandIndex = totalCommands)
         cleanOutput == IF orchBrand(Dev) = tDLink THEN scrubMacOutput(value) ELSE value
     IN
     IF outcome = "resolved"
     THEN /\ files' = writeFile(files, fileName(Dev.ip, extMac), cleanOutput)
          /\ log' = log \o <<Ev("saved", command, last, Len(cleanOutput))>>
                        \o (IF ~last THEN <<Ev("sleep", command, last, 0)>> ELSE <<>>)
     ELSE /\ log' = Append(log, Ev("failed", command, last, 0))
          /\ UNCHANGED files
  /\ opc' = PhaseMac(Dev, ci + 1)
  /\ ci' = ci + 1
  /\ UNCHANGED <<invVars, connVars, di, connection, commandIndex, totalCommands, readerVars>>

\* a finally block that destroys the transport of any brand
CloseConnectionAbortsAnyBrand ==
  /\ opc = "finally"
  /\ \E ok \in BOOLEAN :
       log' = log
         \o (IF connection = "open"
             THEN IF ok THEN <<Ev("end", <<>>, FALSE, 0)>>
                  ELSE <<Ev("endFailed", <<>>, FALSE, 0)>>
                         \o <<Ev("destroy", <<>>, FALSE, 0)>>
             ELSE <<>>)
         \o (IF orchBrand(Dev) = tDLink THEN <<Ev("pause", <<>>, FALSE, 0)>> ELSE <<>>)
  /\ connection' = "null"
  /\ di' = di + 1
  /\ opc' = IF di + 1 <= Len(devices) THEN "connect" ELSE "done"
  /\ UNCHANGED <<invVars, connVars, ci, commandIndex, totalCommands, files, readerVars>>

\* the finally block of one device, then the next device
CloseConnection ==
  /\ opc = "finally"
  /\ \E ok \in BOOLEAN :
       log' = log
         \o (IF connection = "open"
             THEN IF ok THEN <<Ev("end", <<>>, FALSE, 0)>>
                  ELSE <<Ev("endFailed", <<>>, FALSE, 0)>>
                         \o (IF orchBrand(Dev) = tDLink
                             THEN <<Ev("destroy", <<>>, FALSE, 0)>> ELSE <<>>)
             ELSE <<>>)
         \o (IF orchBrand(Dev) = tDLink THEN <<Ev("pause", <<>>, FALSE, 0)>> ELSE <<>>)
  /\ connection' = "null"
  /\ di' = di + 1
  /\ opc' = IF di + 1 <= Len(devices) THEN "connect" ELSE "done"
  /\ UNCHANGED <<invVars, connVars, ci, commandIndex, totalCommands, files, readerVars>>

(***************************************************************************)
(* executeCommandWithExec                                                  *)
(***************************************************************************)
\* let result = await connection.exec(command)
ExecSend ==
  /\ rk = "exec" /\ epc = "send"
  /\ \E ok \in BOOLEAN :
       IF ok
       THEN /\ result' = execReply(1)
            /\ attempts' = 0
            /\ epc' = "loop"
            /\ written' = Append(written, [kind |-> "command", text |-> command,
                                           live |-> TRUE])
            /\ UNCHANGED <<outcome, value>>
       ELSE /\ epc' = "done"
            /\ Settle("rejected", <<>>)
            /\ UNCHANGED <<result, attempts, written>>
  /\ UNCHANGED <<invVars, connVars, staleVars, orchVars, callVars, streamVars, devVars, ghostVars>>

\* a loop that returns what it has when a continuation fails
ExecContinueKeepsPartial ==
  /\ rk = "exec" /\ epc = "loop"
  /\ needsMoreInput(result, device) /\ attempts < maxAttempts
  /\ \E ok \in BOOLEAN :
       IF ok
       THEN LET settings == getDeviceSettings(device, brandSettings)
                input == IF settings.paginationInput # <<>> THEN settings.paginationInput
                         ELSE tSpace
            IN /\ result' = result \o execReply(attempts + 2)
               /\ attempts' = attempts + 1
               /\ written' = Append(written, [kind |-> "page", text |-> input,
                                              live |-> TRUE])
               /\ UNCHANGED <<epc, outcome, value>>
       ELSE /\ epc' = "done"
            /\ Settle("resolved", result)
            /\ UNCHANGED <<result, attempts, written>>
  /\ UNCHANGED <<invVars, connVars, staleVars, orchVars, callVars, streamVars, devVars, ghostVars>>

\* one iteration of the while loop
ExecContinue ==
  /\ rk = "exec" /\ epc = "loop"
  /\ needsMoreInput(result, device) /\ attempts < maxAttempts
  /\ \E ok \in BOOLEAN :
       IF ok
       THEN LET settings == getDeviceSettings(device, brandSettings)
                input == IF settings.paginationInput # <<>> THEN settings.paginationInput
                         ELSE tSpace
            IN /\ result' = result \o execReply(attempts + 2)
               /\ attempts' = attempts + 1
               /\ written' = Append(written, [kind |-> "page", text |-> input,
                                              live |-> TRUE])
               /\ UNCHANGED <<epc, outcome, value>>
       ELSE /\ epc' = "done"
            /\ Settle("rejected", <<>>)
            /\ UNCHANGED <<result, attempts, written>>
  /\ UNCHANGED <<invVars, connVars, staleVars, orchVars, callVars, streamVars, devVars, ghostVars>>

\* a reader for which the ceiling is a failure
ExecReturnFailsAtCeiling ==
  /\ rk = "exec" /\ epc = "loop"
  /\ ~(needsMoreInput(result, device) /\ attempts < maxAttempts)
  /\ epc' = "done"
  /\ IF attempts >= maxAttempts THEN Settle("rejected", <<>>) ELSE Settle("resolved", result)
  /\ UNCHANGED <<invVars, connVars, staleVars, orchVars, callVars, result, attempts, streamVars, written,
                 devVars, ghostVars>>

\* the loop condition is false: return result
ExecReturn ==
  /\ rk = "exec" /\ epc = "loop"
  /\ ~(needsMoreInput(result, device) /\ attempts < maxAttempts)
  /\ epc' = "done"
  /\ Settle("resolved", result)
  /\ UNCHANGED <<invVars, connVars, staleVars, orchVars, callVars, result, attempts, streamVars, written,
                 devVars, ghostVars>>

(***************************************************************************)
(* executeCommandWithShell                                                 *)
(***************************************************************************)
\* the callback of connection.shell
ShellOpen ==
  /\ rk = "shell" /\ stream = "opening"
  /\ \E ok \in BOOLEAN :
       IF ok
       THEN /\ stream' = "open"
            /\ commandTimeout' = TRUE
            /\ sendTimer' = TRUE
            /\ UNCHANGED <<outcome, value>>
       ELSE /\ stream' = "none"
            /\ Settle("rejected", <<>>)
            /\ UNCHANGED <<commandTimeout, sendTimer>>
  /\ UNCHANGED <<invVars, connVars, staleVars, orchVars, callVars, execVars, fullResult, isComplete,
                 inactivityTimer, streamClosed, logoutSent, destroyTimer, written,
                 devVars, ghostVars>>

\* a hard timeout that marks the command complete and leaves the channel open
ShellTimeoutNoDestroy ==
  /\ rk = "shell" /\ commandTimeout
  /\ commandTimeout' = FALSE
  /\ IF ~isComplete
     THEN /\ isComplete' = TRUE
          /\ completedBy' = Append(completedBy, "timeout")
          /\ UNCHANGED <<stream, destroys>>
     ELSE UNCHANGED <<isComplete, completedBy, stream, destroys>>
  /\ UNCHANGED <<invVars, connVars, staleVars, orchVars, callVars, promVars, execVars, fullResult,
                 inactivityTimer, streamClosed, logoutSent, sendTimer, destroyTimer,
                 written, devVars, errored>>

\* the hard timeout fires
ShellTimeout ==
  /\ rk = "shell" /\ commandTimeout
  /\ commandTimeout' = FALSE
  /\ IF ~isComplete
     THEN /\ isComplete' = TRUE
          /\ completedBy' = Append(completedBy, "timeout")
          /\ Destroy
     ELSE UNCHANGED <<isComplete, completedBy, stream, destroys>>
  /\ UNCHANGED <<invVars, connVars, staleVars, orchVars, callVars, promVars, execVars, fullResult,
                 inactivityTimer, streamClosed, logoutSent, sendTimer, destroyTimer,
                 written, devVars, errored>>

\* the settle delay is over: the command is written
ShellSend ==
  /\ rk = "shell" /\ sendTimer
  /\ sendTimer' = FALSE
  /\ written' = Append(written, W("command", command \o tCRLF))
  /\ UNCHANGED <<invVars, connVars, staleVars, orchVars, callVars, promVars, execVars, stream, fullResult,
                 isComplete, commandTimeout, inactivityTimer, streamClosed, logoutSent,
                 destroyTimer, devVars, ghostVars>>

\* stream.on('data')
ShellData ==
  /\ rk = "shell" /\ stream = "open"
  /\ \E output \in NextChunks :
       /\ fullResult' = Accumulate(output)
       /\ cursor' = CursorAfter(output)
       /\ IF needsMoreInput(output, device)
          THEN LET settings == getDeviceSettings(device, brandSettings)
                   paginationInput == IF settings.paginationInput # <<>>
                                      THEN settings.paginationInput ELSE tA
               IN /\ written' = Append(written, W("page", paginationInput))
                  /\ UNCHANGED <<isComplete, destroyTimer, completedBy>>
          ELSE IF endsWithPrompt(output) /\ Len(Accumulate(output)) > Len(command) + 10
                  /\ ~isComplete
          THEN /\ isComplete' = TRUE
               /\ destroyTimer' = "plain"
               /\ completedBy' = Append(completedBy, "prompt")
               /\ UNCHANGED written
          ELSE UNCHANGED <<isComplete, destroyTimer, completedBy, written>>
  /\ UNCHANGED <<invVars, connVars, staleVars, orchVars, callVars, promVars, execVars, stream, commandTimeout,
                 inactivityTimer, streamClosed, logoutSent, sendTimer, pages, endless, minChunk, destroys, errored>>

\* the grace delay after the prompt is over
ShellDestroyTimer ==
  /\ rk = "shell" /\ destroyTimer # "none"
  /\ destroyTimer' = "none"
  /\ Destroy
  /\ UNCHANGED <<invVars, connVars, staleVars, orchVars, callVars, promVars, execVars, fullResult, isComplete,
                 commandTimeout, inactivityTimer, streamClosed, logoutSent, sendTimer,
                 written, devVars, completedBy, errored>>

\* stream.on('close')
ShellCloseHandler ==
  /\ stream' = "closed"
  /\ commandTimeout' = FALSE
  /\ LET cleanResult == cleanShellResult(fullResult, command, device) IN
       IF Len(cleanResult) > 0 THEN Settle("resolved", cleanResult)
       ELSE Settle("rejected", <<>>)
  /\ UNCHANGED <<invVars, connVars, staleVars, orchVars, callVars, execVars, fullResult, isComplete,
                 inactivityTimer, streamClosed, logoutSent, sendTimer, destroyTimer,
                 written, devVars, ghostVars>>

\* the close event that follows stream.destroy()
ShellClose == rk = "shell" /\ stream = "destroyed" /\ ShellCloseHandler

\* the device or the network closes the channel
ShellRemoteClose == rk = "shell" /\ stream = "open" /\ ShellCloseHandler

\* stream.on('error'); the channel closes after an error
ShellError ==
  /\ rk = "shell" /\ stream = "open"
  /\ commandTimeout' = FALSE
  /\ Settle("rejected", <<>>)
  /\ stream' = "destroyed"
  /\ errored' = TRUE
  /\ UNCHANGED <<invVars, connVars, staleVars, orchVars, callVars, execVars, fullResult, isComplete,
                 inactivityTimer, streamClosed, logoutSent, sendTimer, destroyTimer,
                 written, devVars, completedBy, destroys>>

(***************************************************************************)
(* executeCommandForDLink                                                  *)
(***************************************************************************)
\* the callback of connection.shell
DLinkOpen ==
  /\ rk = "dlink" /\ stream = "opening"
  /\ \E ok \in BOOLEAN :
       IF ok
       THEN /\ stream' = "open"
            /\ commandTimeout' = TRUE
            /\ sendTimer' = TRUE
            /\ UNCHANGED <<outcome, value>>
       ELSE /\ stream' = "none"
            /\ Settle("rejected", <<>>)
            /\ UNCHANGED <<commandTimeout, sendTimer>>
  /\ UNCHANGED <<invVars, connVars, staleVars, orchVars, callVars, execVars, fullResult, isComplete,
                 inactivityTimer, streamClosed, logoutSent, destroyTimer, written,
                 devVars, ghostVars>>

\* the hard timeout fires
DLinkTimeout ==
  /\ rk = "dlink" /\ commandTimeout
  /\ commandTimeout' = FALSE
  /\ IF ~isComplete
     THEN /\ isComplete' = TRUE
          /\ completedBy' = Append(completedBy, "timeout")
          /\ IF ~streamClosed THEN Destroy ELSE UNCHANGED <<stream, destroys>>
     ELSE UNCHANGED <<isComplete, completedBy, stream, destroys>>
  /\ UNCHANGED <<invVars, connVars, staleVars, orchVars, callVars, promVars, execVars, fullResult,
                 inactivityTimer, streamClosed, logoutSent, sendTimer, destroyTimer,
                 written, devVars, errored>>

\* the settle delay is over: the command is written
DLinkSend ==
  /\ rk = "dlink" /\ sendTimer
  /\ sendTimer' = FALSE
  /\ written' = Append(written, W("command", command \o tCRLF))
  /\ UNCHANGED <<invVars, connVars, staleVars, orchVars, callVars, promVars, execVars, stream, fullResult,
                 isComplete, commandTimeout, inactivityTimer, streamClosed, logoutSent,
                 destroyTimer, devVars, ghostVars>>

\* a sign-off that does not look at isLastCommand
DLinkSignOffAnyCommand(delayed) ==
  IF ~logoutSent /\ ~streamClosed
  THEN /\ logoutSent' = TRUE
       /\ log' = Append(log, Ev("logout", command, isLastCommand, 0))
       /\ written' = Append(written, W("logout", tLogout))
       /\ destroyTimer' = "guarded"
       /\ UNCHANGED <<stream, destroys>>
  ELSE IF ~streamClosed
  THEN IF delayed
       THEN /\ destroyTimer' = "plain"
            /\ UNCHANGED <<logoutSent, log, written, stream, destroys>>
       ELSE /\ Destroy
            /\ UNCHANGED <<logoutSent, log, written, destroyTimer>>
  ELSE UNCHANGED <<logoutSent, log, written, destroyTimer, stream, destroys>>

\* what both completion paths of the D-Link reader do once they marked the
\* command complete: logout and a guarded delayed destroy on the last command,
\* else the path's own way of closing (delayed after a prompt, at once after
\* inactivity)
DLinkSignOff(delayed) ==
  IF isLastCommand /\ ~logoutSent /\ ~streamClosed
  THEN /\ logoutSent' = TRUE
       /\ log' = Append(log, Ev("logout", command, isLastCommand, 0))
       /\ written' = Append(written, W("logout", tLogout))
       /\ destroyTimer' = "guarded"
       /\ UNCHANGED <<stream, destroys>>
  ELSE IF ~streamClosed
  THEN IF delayed
       THEN /\ destroyTimer' = "plain"
            /\ UNCHANGED <<logoutSent, log, written, stream, destroys>>
       ELSE /\ Destroy
            /\ UNCHANGED <<logoutSent, log, written, destroyTimer>>
  ELSE UNCHANGED <<logoutSent, log, written, destroyTimer, stream, destroys>>

\* an inactivity timer that does not look at isComplete
DLinkInactivityUnguarded ==
  /\ rk = "dlink" /\ inactivityTimer
  /\ inactivityTimer' = FALSE
  /\ isComplete' = TRUE
  /\ completedBy' = Append(completedBy, "inactivity")
  /\ DLinkSignOff(FALSE)
  /\ UNCHANGED <<invVars, connVars, staleVars, runVars, callVars, promVars, execVars, fullResult,
                 commandTimeout, streamClosed, sendTimer, devVars, errored>>

\* the inactivity timer fires
DLinkInactivity ==
  /\ rk = "dlink" /\ inactivityTimer
  /\ inactivityTimer' = FALSE
  /\ IF ~isComplete
     THEN /\ isComplete' = TRUE
          /\ completedBy' = Append(completedBy, "inactivity")
          /\ DLinkSignOff(FALSE)
     ELSE UNCHANGED <<isComplete, completedBy, logoutSent, log, written, destroyTimer,
                      stream, destroys>>
  /\ UNCHANGED <<invVars, connVars, staleVars, runVars, callVars, promVars, execVars, fullResult,
                 commandTimeout, streamClosed, sendTimer, devVars, errored>>

\* a data handler that does not call resetInactivityTimer
DLinkDataNoRearm ==
  /\ rk = "dlink" /\ stream = "open"
  /\ \E output \in NextChunks :
       /\ fullResult' = Accumulate(output)
       /\ cursor' = CursorAfter(output)
       /\ UNCHANGED inactivityTimer
       /\ IF needsMoreInput(output, device)
          THEN /\ written' = Append(written, W("page", tA))
               /\ UNCHANGED <<isComplete, completedBy, logoutSent, log, destroyTimer>>
          ELSE IF endsWithPrompt(output) /\ Len(Accumulate(output)) > Len(command) + 10
                  /\ ~isComplete
          THEN /\ isComplete' = TRUE
               /\ completedBy' = Append(completedBy, "prompt")
               /\ DLinkSignOff(TRUE)
          ELSE UNCHANGED <<isComplete, completedBy, logoutSent, log, written,
                           destroyTimer>>
  /\ UNCHANGED <<stream, destroys, errored>>
  /\ UNCHANGED <<invVars, connVars, staleVars, runVars, callVars, promVars, execVars, commandTimeout,
                 streamClosed, sendTimer, pages, endless, minChunk>>

\* stream.on('data')
DLinkData ==
  /\ rk = "dlink" /\ stream = "open"
  /\ \E output \in NextChunks :
       /\ fullResult' = Accumulate(output)
       /\ cursor' = CursorAfter(output)
       /\ inactivityTimer' = TRUE
       /\ IF needsMoreInput(output, device)
          THEN /\ written' = Append(written, W("page", tA))
               /\ UNCHANGED <<isComplete, completedBy, logoutSent, log, destroyTimer>>
          ELSE IF endsWithPrompt(output) /\ Len(Accumulate(output)) > Len(command) + 10
                  /\ ~isComplete
          THEN /\ isComplete' = TRUE
               /\ completedBy' = Append(completedBy, "prompt")
               /\ DLinkSignOff(TRUE)
          ELSE UNCHANGED <<isComplete, completedBy, logoutSent, log, written,
                           destroyTimer>>
  /\ UNCHANGED <<stream, destroys, errored>>
  /\ UNCHANGED <<invVars, connVars, staleVars, runVars, callVars, promVars, execVars, commandTimeout,
                 streamClosed, sendTimer, pages, endless, minChunk>>

\* a delayed destroy is due
DLinkDestroyTimer ==
  /\ rk = "dlink" /\ destroyTimer # "none"
  /\ destroyTimer' = "none"
  /\ IF destroyTimer = "guarded" /\ streamClosed THEN UNCHANGED <<stream, destroys>>
     ELSE Destroy
  /\ UNCHANGED <<invVars, connVars, staleVars, orchVars, callVars, promVars, execVars, fullResult, isComplete,
                 commandTimeout, inactivityTimer, streamClosed, logoutSent, sendTimer,
                 written, devVars, completedBy, errored>>

\* a close handler that fails only when nothing was received
DLinkCloseHandlerAnyBytes ==
  /\ stream' = "closed"
  /\ streamClosed' = TRUE
  /\ inactivityTimer' = FALSE
  /\ commandTimeout' = FALSE
  /\ LET cleanResult == cleanDLinkResult(fullResult, command) IN
       IF Len(fullResult) > 0 THEN Settle("resolved", cleanResult)
       ELSE Settle("rejected", <<>>)
  /\ UNCHANGED <<invVars, connVars, staleVars, orchVars, callVars, execVars, fullResult, isComplete,
                 logoutSent, sendTimer, destroyTimer, written, devVars, ghostVars>>

\* stream.on('close')
DLinkCloseHandler ==
  /\ stream' = "closed"
  /\ streamClosed' = TRUE
  /\ inactivityTimer' = FALSE
  /\ commandTimeout' = FALSE
  /\ LET cleanResult == cleanDLinkResult(fullResult, command) IN
       IF Len(cleanResult) > 0 THEN Settle("resolved", cleanResult)
       ELSE Settle("rejected", <<>>)
  /\ UNCHANGED <<invVars, connVars, staleVars, orchVars, callVars, execVars, fullResult, isComplete,
                 logoutSent, sendTimer, destroyTimer, written, devVars, ghostVars>>

\* the close event that follows stream.destroy()
DLinkClose == rk = "dlink" /\ stream = "destroyed" /\ DLinkCloseHandler

\* the device or the network closes the channel
DLinkRemoteClose == rk = "dlink" /\ stream = "open" /\ DLinkCloseHandler

\* stream.on('error'); the channel closes after an error
DLinkError ==
  /\ rk = "dlink" /\ stream = "open"
  /\ inactivityTimer' = FALSE
  /\ commandTimeout' = FALSE
  /\ Settle("rejected", <<>>)
  /\ stream' = "destroyed"
  /\ errored' = TRUE
  /\ UNCHANGED <<invVars, connVars, staleVars, orchVars, callVars, execVars, fullResult, isComplete,
                 streamClosed, logoutSent, sendTimer, destroyTimer, written, devVars,
                 completedBy, destroys>>

(***************************************************************************)
(* Timers that outlive their command                                       *)
(***************************************************************************)
\* the command-send timer of an earlier command fires: stream.write(command
\* + '\r\n') on that command's channel
StaleSend ==
  /\ stale # <<>>
  /\ stale' = Tail(stale)
  /\ late' = Append(late, Head(stale))
  /\ UNCHANGED <<invVars, connVars, orchVars, callVars, promVars, execVars, streamVars, written,
                 devVars, ghostVars>>

(***************************************************************************)
(* Specification                                                           *)
(***************************************************************************)
Next ==
  \/ Connect \/ Enable \/ CiscoStart \/ CiscoFinish
  \/ ConfigStart \/ ConfigFinish \/ AppendStart \/ AppendFinish
  \/ MacStart \/ MacFinish \/ CloseConnection
  \/ ExecSend \/ ExecContinue \/ ExecReturn
  \/ ShellOpen \/ ShellTimeout \/ ShellSend \/ ShellData \/ ShellDestroyTimer
  \/ ShellClose \/ ShellRemoteClose \/ ShellError
  \/ DLinkOpen \/ DLinkTimeout \/ DLinkSend \/ DLinkInactivity \/ DLinkData
  \/ DLinkDestroyTimer \/ DLinkClose \/ DLinkRemoteClose \/ DLinkError
  \/ StaleSend

Spec == Init /\ [][Next]_vars

\* what the event loop owes a raw-stream reader: the callback of
\* connection.shell is called, an armed hard timeout or delayed destroy fires
TimersFire ==
  \/ ShellOpen \/ ShellTimeout \/ ShellDestroyTimer
  \/ DLinkOpen \/ DLinkTimeout \/ DLinkDestroyTimer

\* a destroyed channel emits close: the steps of ShellClose and DLinkClose
ChannelCloses ==
  rk \in {"shell", "dlink"} /\ stream = "destroyed" /\ stream' = "closed"

\* Nothing is assumed of the device (it may send forever or never), of the
\* inactivity timer (a chunk re-arms it) or of the orchestrator.
LiveSpec ==
  Init /\ [][Next]_vars /\ WF_vars(TimersFire) /\ WF_stream(ChannelCloses)


(***************************************************************************)
(* The normalisers on their own: a close handler that finds any            *)
(* accumulated text, any command and either kind of brand                  *)
(***************************************************************************)
MaxPieces == 4

tShowVersion == <<"s", "h", "o", "w", " ", "v", "e", "r", "s", "i", "o", "n">>
tVersion10 == <<"V", "e", "r", "s", "i", "o", "n", " ", "1", ".", "0">>
tSwitchPrompt == <<"s", "w", "i", "t", "c", "h", "#">>
tDgsPrompt == <<"D", "G", "S", "-", "1", "-", "1", "S", "C", ":", "a", "#">>

\* the transcript of a "show version" on a switch
tTranscript == tShowVersion \o tCRLF \o tVersion10 \o tCRLF \o tSwitchPrompt

\* what accumulated text is made of: the command, other text, prompt
\* characters, white space, a D-Link prompt
Pieces == {cmdCfg, <<"x">>, <<"#">>, <<"%">>, <<" ">>, tDgsPrompt}

RawTexts ==
  {tTranscript} \cup
  UNION {{Flatten(ps, n) : ps \in [1..n -> Pieces]} : n \in 0..MaxPieces}

NormalizerInit ==
  /\ \E brand \in {tBrandCisco, tBrandDLink} :
       /\ devices = <<Device(ip1, brand, <<>>, <<cmdCfg>>, <<>>)>>
       /\ device = Device(ip1, brand, <<>>, <<cmdCfg>>, <<>>)
       /\ rk \in IF brand = tBrandDLink THEN {"shell", "dlink"} ELSE {"shell"}
  /\ brandSettings = FallbackBrandSettings
  /\ scripts = {}
  /\ di = 1
  /\ opc = "config"
  /\ ci = 1
  /\ connection = "open"
  /\ commandIndex = 1
  /\ totalCommands = 1
  /\ files = [n \in {} |-> <<>>]
  /\ log = <<>>
  /\ command \in {cmdCfg, tShowVersion}
  /\ isLastCommand = TRUE
  /\ callNo = 0
  /\ outcome = "pending"
  /\ value = <<>>
  /\ epc = "none"
  /\ result = <<>>
  /\ attempts = 0
  /\ stream = "closed"
  /\ fullResult \in RawTexts
  /\ isComplete = FALSE
  /\ commandTimeout = FALSE
  /\ inactivityTimer = FALSE
  /\ streamClosed = FALSE
  /\ logoutSent = FALSE
  /\ sendTimer = FALSE
  /\ destroyTimer = "none"
  /\ written = <<>>
  /\ pages = <<>>
  /\ endless = FALSE
  /\ minChunk = 1
  /\ cursor = 0
  /\ completedBy = <<>>
  /\ destroys = 0
  /\ errored = FALSE
  /\ stale = <<>>
  /\ late = <<>>
  /\ effective = Undefined
  /\ BatchIdle

\* what a normaliser call leaves alone
normVars == <<invVars, orchVars, rk, device, command, isLastCommand, execVars,
              stream, isComplete, commandTimeout, inactivityTimer, streamClosed,
              logoutSent, sendTimer, destroyTimer, written, devVars, ghostVars,
              staleVars, connVars>>

\* the close handler of executeCommandWithShell normalises the accumulated
\* text; callNo counts the normaliser calls
CleanShell ==
  /\ rk = "shell" /\ callNo = 0
  /\ value' = cleanShellResult(fullResult, command, device)
  /\ outcome' = IF Len(value') > 0 THEN "resolved" ELSE "rejected"
  /\ callNo' = 1
  /\ UNCHANGED <<fullResult, normVars>>

\* the close handler of executeCommandForDLink normalises it inline
CleanDLink ==
  /\ rk = "dlink" /\ callNo = 0
  /\ value' = cleanDLinkResult(fullResult, command)
  /\ outcome' = IF Len(value') > 0 THEN "resolved" ELSE "rejected"
  /\ callNo' = 1
  /\ UNCHANGED <<fullResult, normVars>>

\* the normaliser applied to its own result, for the same command and device
CleanAgain ==
  /\ callNo = 1
  /\ fullResult' = value
  /\ value' = IF rk = "shell" THEN cleanShellResult(value, command, device)
              ELSE cleanDLinkResult(value, command)
  /\ outcome' = IF Len(value') > 0 THEN "resolved" ELSE "rejected"
  /\ callNo' = 2
  /\ UNCHANGED normVars

NormalizerNext == CleanShell \/ CleanDLink \/ CleanAgain

NormalizerSpec == NormalizerInit /\ [][NormalizerNext]_vars
(***************************************************************************)
(* Properties                                                              *)
(***************************************************************************)
tMore == <<"-", "-", "M", "o", "r", "e", "-", "-">>
RawReaders == {"shell", "dlink"}

\* the continuation keystrokes written for the current command
PageWrites == Cardinality({i \in DOMAIN written : written[i].kind = "page"})

\* the number of occurrences of lit in s
CountOcc(s, lit) == Cardinality({i \in 1..Len(s) : LitAt(s, i, lit, FALSE)})

\* the device has sent everything the writes it received entitle it to
DeviceQuiet == ~endless /\ cursor = Len(Flatten(pages, Released))

\* C1: executeCommandWithExec sends a continuation only while the latest
\* reply is flagged by the Pagination Matcher: every reply that was followed
\* by a continuation input was itself flagged.
C1_ContinuationOnlyAfterFlaggedReply ==
  (rk = "exec" /\ epc \in {"loop", "done"}) =>
    \A k \in 1..attempts : needsMoreInput(execReply(k), device)

\* C2: in executeCommandWithShell, whenever completion is declared and the
\* device has nothing more to send, the continuation input was written exactly
\* once per "--More--" received, however the text was cut into chunks.
C2_OneContinuationPerMore ==
  (rk = "shell" /\ isComplete /\ DeviceQuiet) =>
    PageWrites = CountOcc(fullResult, tMore)

\* C3: the result returned for a command contains no "--More--".
C3_ResultWithoutMore ==
  (rk \in {"exec", "shell"} /\ outcome = "resolved") => ~includes(value, tMore)

\* a chunk arrived in a raw-stream reader and was appended to the accumulator
DataStep ==
  /\ rk \in RawReaders /\ rk' = rk /\ callNo' = callNo
  /\ Len(fullResult') > Len(fullResult)

\* the chunk of a DataStep
Chunk == SubSeq(fullResult', Len(fullResult) + 1, Len(fullResult'))

\* s ends with $, %, # or >, optionally followed by whitespace
EndsWithPromptChar(s) ==
  \E i \in 1..Len(s) :
    /\ s[i] \in {"$", "%", "#", ">"}
    /\ \A j \in (i + 1)..Len(s) : s[j] \in WhiteSpace

\* C4: in both raw-stream readers a chunk declares prompt-based completion
\* only if it matches no pagination pattern, ends with a prompt character
\* (optionally followed by whitespace) and the accumulated length exceeds the
\* command's length by more than 10; a chunk that matches a pagination
\* pattern is answered by exactly one continuation write and never completes.
C4_PromptCompletionGuard ==
  [][DataStep =>
       LET paged == needsMoreInput(Chunk, device)
           declared == isComplete' /\ ~isComplete
       IN /\ declared => /\ ~paged
                         /\ EndsWithPromptChar(Chunk)
                         /\ Len(fullResult') > Len(command) + 10
                         /\ completedBy' = Append(completedBy, "prompt")
          /\ paged => /\ ~declared
                      /\ Len(written') = Len(written) + 1
                      /\ written'[Len(written')].kind = "page"]_vars

C4_Witness ==
  /\ rk \in RawReaders /\ completedBy = <<"prompt">> /\ PageWrites >= 1
  /\ outcome = "resolved"

\* C5: every raw-stream command execution eventually settles, whatever the
\* device does, given that timers fire and a destroyed channel emits close.
C5_RawCommandSettles ==
  [](((rk \in RawReaders) /\ outcome = "pending") => <>(outcome # "pending"))

C5_Witness ==
  /\ rk \in RawReaders /\ endless /\ Len(fullResult) >= MaxAccum
  /\ completedBy = <<"timeout">> /\ outcome \in {"resolved", "rejected"}

\* the logout lines written for the current command
LogoutWrites == Cardinality({i \in DOMAIN written : written[i].kind = "logout"})

\* C6: in a raw-stream command execution at most one of prompt detection,
\* inactivity expiry and hard timeout marks the command complete and starts
\* closing the channel (one destroy, at most one logout); the others do
\* nothing.
C6_OneCompletionTrigger ==
  (rk \in RawReaders) =>
     /\ Len(completedBy) <= 1
     /\ destroys <= 1
     /\ LogoutWrites <= 1
     /\ (isComplete <=> Len(completedBy) = 1)

C6_Witness ==
  /\ rk = "dlink" /\ completedBy = <<"prompt">> /\ stream = "open"
  /\ ~commandTimeout /\ ~inactivityTimer /\ destroyTimer # "none"

InactivityStep ==
  /\ rk = "dlink" /\ rk' = rk /\ callNo' = callNo
  /\ inactivityTimer /\ ~inactivityTimer' /\ stream' # "closed" /\ ~errored'

EndedByInactivity ==
  /\ rk = "dlink" /\ completedBy = <<"inactivity">> /\ PageWrites = 0
  /\ stream = "closed" /\ ~errored

\* C8 as stated: such an execution yields a result if any bytes were
\* received and fails only if none were.
C8_ResultIfAnyBytes ==
  EndedByInactivity => (outcome = "resolved" <=> Len(fullResult) > 0)

\* C8 amended: such an execution resolves with the normalised text if that
\* text is non-empty and fails if it is empty, even though bytes were
\* received; the inactivity timer is never armed before the first byte.
C8_ResultIfNormalisedNonEmpty ==
  /\ EndedByInactivity =>
       LET clean == cleanDLinkResult(fullResult, command) IN
         IF Len(clean) > 0 THEN outcome = "resolved" /\ value = clean
         ELSE outcome = "rejected"
  /\ (rk = "dlink" /\ inactivityTimer) => Len(fullResult) > 0

C8_Witness ==
  /\ EndedByInactivity /\ Len(fullResult) > 0 /\ outcome = "rejected"

\* C9: a raw-stream command ended by the hard timeout fails: the reader
\* rejects and its accumulated text is not returned.
C9_HardTimeoutFails ==
  (rk \in RawReaders /\ completedBy = <<"timeout">> /\ outcome # "pending")
    => outcome = "rejected"

\* C10: no output file is written for a command whose output is empty.
C10_NoEmptyFile ==
  \A name \in DOMAIN files : Len(files[name]) > 0

(***************************************************************************)
(* collectConfigs                                                          *)
(***************************************************************************)
\* the events of device number d, of the given kinds
Events(d, kinds) == SelectSeq(log, LAMBDA e : e.dev = d /\ e.ev \in kinds)

\* the connection attempts of the run, in the order they were made
ConnectAttempts == SelectSeq(log, LAMBDA e : e.ev \in {"connected", "connectFailed"})

\* C11: every device of the inventory is attempted exactly once, in
\* inventory order; after a connection failure none of the device's commands
\* is run and the next device is attempted; the run ends only after the last
\* device, whatever failed.
C11_EveryDeviceAttemptedOnce ==
  /\ \A i \in 1..Len(ConnectAttempts) : ConnectAttempts[i].dev = i
  /\ Len(ConnectAttempts) = (IF opc \in {"connect", "done"} THEN di - 1 ELSE di)
  /\ opc = "done" => Len(ConnectAttempts) = Len(devices)
  /\ \A d \in 1..Len(devices) :
       Len(Events(d, {"connectFailed"})) = 1 =>
         Len(Events(d, {"start", "enabled", "enableFailed", "end", "endFailed"})) = 0

C11_Witness ==
  /\ opc = "done" /\ Len(devices) = 2
  /\ Len(Events(1, {"connectFailed"})) = 1
  /\ Len(Events(2, {"connected"})) = 1
  /\ Len(Events(2, {"failed"})) = 1
  /\ Len(Events(2, {"endFailed"})) = 1

\* the commands started for device number d, in order
Started(d) ==
  LET s == Events(d, {"start"}) IN [i \in 1..Len(s) |-> s[i].cmd]

\* the command sequence of a device: 'terminal length 0' for Cisco, the
\* configuration commands, the D-Link remediation command, the MAC commands
ExpectedCommands(d) ==
  (IF orchBrand(d) = tCisco THEN <<tTerminalLength0>> ELSE <<>>)
    \o d.commands.config
    \o (IF orchBrand(d) = tDLink /\ d.appendMissingConfig
        THEN <<tShowConfigEffective>> ELSE <<>>)
    \o d.commands.mac

IsPrefix(a, b) == Len(a) <= Len(b) /\ a = SubSeq(b, 1, Len(a))

\* the run of device number d is past its commands
CommandsOver(d) == di > d \/ (di = d /\ opc \in {"finally", "done"})

\* a command of the current device is awaited
Awaiting == opc \in {"ciscoWait", "configWait", "appendWait", "macWait"}

\* C12: a failed command is caught and logged, and every later command of
\* the device's sequence is still executed, on the same connection: once a
\* connected device is past its commands, all of them were started, each
\* started command has its outcome logged, and the connection stays open
\* while commands run.
C12_FailureDoesNotStopCommands ==
  /\ \A d \in 1..Len(devices) :
       Len(Events(d, {"connected"})) = 1 =>
         /\ IsPrefix(Started(d), ExpectedCommands(devices[d]))
         /\ CommandsOver(d) => Started(d) = ExpectedCommands(devices[d])
         /\ Len(Events(d, {"ok", "saved", "appended", "failed"}))
              = Len(Started(d)) - (IF d = di /\ Awaiting THEN 1 ELSE 0)
  /\ (Awaiting \/ opc \in {"cisco", "config", "append", "mac"}) => connection = "open"

C12_Witness ==
  /\ opc = "finally"
  /\ \E i, j \in 1..Len(log) :
       /\ i < j /\ log[i].dev = di /\ log[j].dev = di
       /\ log[i].ev = "failed" /\ log[i].cmd = cmdCfg
       /\ log[j].ev = "start" /\ log[j].cmd = cmdMac

\* C13: in the run of a device with at least one command, exactly one
\* executed command is passed isLastCommand = true, and it is the final
\* command of the combined sequence (configuration, remediation, MAC),
\* whether or not earlier commands failed.
C13_LastCommandFlag ==
  /\ \A d \in 1..Len(devices) :
       LET s == Events(d, {"start"})
           n == Len(ExpectedCommands(devices[d]))
       IN /\ \A i \in 1..Len(s) : s[i].last <=> (i = n /\ s[i].cmd # tTerminalLength0)
          /\ (CommandsOver(d) /\ Len(Events(d, {"connected"})) = 1
                /\ Len(devices[d].commands.config) + Len(devices[d].commands.mac) >= 1)
               => Len(s) = n /\ s[n].last
  /\ Awaiting => (isLastCommand <=> log[Len(log)].last)

C13_Witness ==
  /\ opc = "finally" /\ Len(Events(di, {"start"})) = 2
  /\ Events(di, {"start"})[2].last /\ ~Events(di, {"start"})[1].last
  /\ Len(Events(di, {"failed"})) >= 1

\* C14: over the run of one device logout is written at most once, only by
\* the command flagged as last and only when every command of the device has
\* been started; within one executeCommandForDLink execution it is written
\* at most once, whichever of the prompt and inactivity paths are reached.
C14_LogoutOnceByLastCommand ==
  /\ \A d \in 1..Len(devices) :
       /\ Len(Events(d, {"logout"})) <= 1
       /\ Len(Events(d, {"logout"})) = 1 =>
            /\ Events(d, {"logout"})[1].last
            /\ Started(d) = ExpectedCommands(devices[d])
            /\ Events(d, {"logout"})[1].cmd = Started(d)[Len(Started(d))]
  /\ LogoutWrites = (IF logoutSent THEN 1 ELSE 0)
  /\ logoutSent => rk = "dlink" /\ isLastCommand /\ isComplete

C14_Witness ==
  /\ rk = "dlink" /\ completedBy = <<"prompt">> /\ logoutSent
  /\ Len(Events(di, {"logout"})) = 1 /\ Len(Started(di)) = 2
  /\ stream = "open" /\ Len(fullResult) > 0 /\ ~inactivityTimer

\* C15: within a device run a command is started only after the previous
\* one has settled, and no write on behalf of an earlier command (its
\* delayed command send, a continuation keystroke, a logout) is made once a
\* later command has been started.
C15_NoWriteForEarlierCommand ==
  /\ late = <<>>
  /\ opc \in {"cisco", "config", "append", "mac"} => outcome # "pending"

Text16Done ==
  /\ rk = "shell" /\ callNo = 1
  /\ fullResult = tTranscript /\ command = tShowVersion
  /\ toLowerCase(device.brand) \notin {tDLink, tDlinkNoDash}

\* C16: for the raw text "show version\r\nVersion 1.0\r\nswitch#" and the
\* command "show version", on a device without a brand-specific prompt
\* pattern, cleanShellResult returns exactly "Version 1.0".
C16_TranscriptExample == Text16Done => value = tVersion10

\* C17: the result of either normaliser (cleanShellResult, the inline
\* normalisation of executeCommandForDLink) never contains the literal text
\* of the command that was sent, whatever the raw text and the command.
C17_ResultWithoutCommand == callNo = 1 => ~includes(value, command)

\* C18: the result of either normaliser never ends with a bare prompt
\* terminator of the set used for completion detection ($, %, #, >).
C18_ResultWithoutTrailingPrompt ==
  callNo = 1 /\ value # <<>> => value[Len(value)] \notin PromptChars

\* C19: the normalisers are idempotent: normalising a normalised result
\* again, for the same command and brand, gives the same result.
C19_NormalizerIdempotent == callNo = 2 => value = fullResult

\* a trailing prompt fragment: a prompt character and white space to the end
IsPromptFragment(t) == t # <<>> /\ t[1] \in StripChars /\ AllWS(t, 2)

\* what the normaliser of the current call takes for trailing prompt text:
\* nothing, a prompt fragment, and where the D-Link prompt pattern applies a
\* D-Link prompt, alone or after a prompt fragment
PromptTail(t) ==
  LET dgs == rk = "dlink" \/ toLowerCase(device.brand) \in {tDLink, tDlinkNoDash} IN
  \/ t = <<>>
  \/ IsPromptFragment(t)
  \/ dgs /\ DgsPromptAt(t, 1)
  \/ dgs /\ \E k \in 1..Len(t) :
              IsPromptFragment(SubSeq(t, 1, k)) /\ DgsPromptAt(SubSeq(t, k + 1, Len(t)), 1)

\* C20: when the command does not occur in the raw text, nothing is discarded
\* for the echo: the result is the raw text without its trailing prompt
\* fragment (stripped whenever the text ends with one) and without the
\* surrounding white space, and a non-empty result is returned, not an error.
C20_NoEchoDiscardsNothing ==
  callNo = 1 /\ ~includes(fullResult, command) =>
    /\ \E j \in 0..Len(fullResult) :
         /\ value = trim(SubSeq(fullResult, 1, j))
         /\ PromptTail(SubSeq(fullResult, j + 1, Len(fullResult)))
         /\ j = Len(fullResult) => ~\E i \in 1..Len(fullResult) :
                                      fullResult[i] \in StripChars /\ AllWS(fullResult, i + 1)
    /\ value # <<>> => outcome = "resolved"

C20_Witness ==
  /\ callNo = 1 /\ rk = "dlink" /\ command = cmdCfg
  /\ fullResult = <<"x", "%", " ">> \o tDgsPrompt
  /\ value = <<"x", "%">> /\ outcome = "resolved"


(***************************************************************************)
(* The pagination matcher on its own: the exec reader run for a device     *)
(* that may carry its own pagination prompts, against any first reply      *)
(***************************************************************************)
MaxParts == 2

tNext == <<"-", "-", "N", "e", "x", "t", "-", "-">>
tMorePrompt == <<"-", "-", "M", "o", "r", "e", "-", "-">>
tAAll == <<"a", " ", "A", "l", "l">>

\* a paginationPrompts entry given as a string: matched literally, case-insensitively
Literal(t) == [frags |-> <<t>>, tail |-> "none"]

\* a paginationPrompts list of a devices.json entry
Prompts(l) == [defined |-> TRUE, list |-> l]

\* devices.json entries with and without a paginationPrompts list
PromptLists ==
  {Undefined, Prompts(<<Literal(tNext)>>), Prompts(<<Literal(tMorePrompt)>>),
   Prompts(<<Literal(tNext), Literal(tAAll)>>)}

\* what a reply is made of
Parts == {tNext, tMorePrompt, tAAll, <<"x">>, <<"\n">>}

Replies == UNION {{Flatten(ps, n) : ps \in [1..n -> Parts]} : n \in 0..MaxParts}

MatcherInit ==
  /\ \E brand \in {tBrandCisco, tBrandDLink}, prompts \in PromptLists :
       LET d == [Device(ip1, brand, <<>>, <<cmdCfg>>, <<>>) EXCEPT
                   !.connectionSettings = Profile(tExec, tSpace),
                   !.paginationPrompts = prompts]
       IN devices = <<d>> /\ device = d
  /\ brandSettings = FallbackBrandSettings
  /\ scripts = {}
  /\ di = 1
  /\ opc = "config"
  /\ ci = 1
  /\ connection = "open"
  /\ commandIndex = 1
  /\ totalCommands = 1
  /\ files = [n \in {} |-> <<>>]
  /\ log = <<>>
  /\ rk = "exec"
  /\ command = cmdCfg
  /\ isLastCommand = TRUE
  /\ callNo = 1
  /\ outcome = "pending"
  /\ value = <<>>
  /\ epc = "send"
  /\ result = <<>>
  /\ attempts = 0
  /\ stream = "none"
  /\ fullResult = <<>>
  /\ isComplete = FALSE
  /\ commandTimeout = FALSE
  /\ inactivityTimer = FALSE
  /\ streamClosed = FALSE
  /\ logoutSent = FALSE
  /\ sendTimer = FALSE
  /\ destroyTimer = "none"
  /\ written = <<>>
  /\ \E reply \in Replies : pages = << <<>>, reply >>
  /\ endless = FALSE
  /\ minChunk = 1
  /\ cursor = 0
  /\ completedBy = <<>>
  /\ destroys = 0
  /\ errored = FALSE
  /\ stale = <<>>
  /\ late = <<>>
  /\ effective = Undefined
  /\ BatchIdle

MatcherNext == ExecSend \/ ExecContinue \/ ExecReturn

MatcherSpec == MatcherInit /\ [][MatcherNext]_vars

(***************************************************************************)
(* The profile resolver on its own: connectToDevice called for any device  *)
(* entry, under either brandSettings map                                   *)
(***************************************************************************)
tBrandZyxel == <<"Z", "y", "x", "e", "l">>

\* a connectionSettings object of a devices.json entry
OverrideProfile ==
  [Profile(tShell, tA) EXCEPT !.timeout = 1234, !.commandTimeout = 2345]

\* the values a timeout-class field of a device entry takes: absent or null,
\* zero, a number
TimeoutValues == {NoNumber, 0, 7000}

DeviceEntries ==
  {[Device(ip1, brand, vendor, <<cmdCfg>>, <<>>) EXCEPT
      !.connectionSettings = cs, !.timeout = t[1], !.commandTimeout = t[2],
      !.execTimeout = t[3], !.shellTimeout = t[4]] :
     brand \in {<<>>, tBrandDLink, tBrandCisco, tBrandZyxel},
     vendor \in {<<>>, tBrandHuawei, tBrandZyxel},
     cs \in {Undefined, OverrideProfile},
     t \in [1..4 -> TimeoutValues]}

ResolverInit ==
  /\ \E d \in DeviceEntries : devices = <<d>>
  /\ brandSettings \in {FallbackBrandSettings, FileBrandSettings}
  /\ scripts = {"plain"}
  /\ di = 1
  /\ opc = "connect"
  /\ ci = 1
  /\ connection = "null"
  /\ commandIndex = 0
  /\ totalCommands = 0
  /\ files = [n \in {} |-> <<>>]
  /\ log = <<>>
  /\ rk = "none"
  /\ device = Undefined
  /\ command = <<>>
  /\ isLastCommand = FALSE
  /\ callNo = 0
  /\ outcome = "none"
  /\ value = <<>>
  /\ epc = "none"
  /\ result = <<>>
  /\ attempts = 0
  /\ stream = "none"
  /\ fullResult = <<>>
  /\ isComplete = FALSE
  /\ commandTimeout = FALSE
  /\ inactivityTimer = FALSE
  /\ streamClosed = FALSE
  /\ logoutSent = FALSE
  /\ sendTimer = FALSE
  /\ destroyTimer = "none"
  /\ written = <<>>
  /\ pages = <<>>
  /\ endless = FALSE
  /\ minChunk = 1
  /\ cursor = 0
  /\ completedBy = <<>>
  /\ destroys = 0
  /\ errored = FALSE
  /\ stale = <<>>
  /\ late = <<>>
  /\ effective = Undefined
  /\ BatchIdle

ResolverNext == Connect

ResolverSpec == ResolverInit /\ [][ResolverNext]_vars

(***************************************************************************)
(* collectMacTables: one connection per MAC command of every device        *)
(***************************************************************************)
\* the next device after number d that has a MAC command, or past the end
RECURSIVE NextMacDevice(_)
NextMacDevice(d) ==
  IF d + 1 > Len(devices) THEN Len(devices) + 1
  ELSE IF Len(devices[d + 1].commands.mac) > 0 THEN d + 1
  ELSE NextMacDevice(d + 1)

\* a brandSettings.json that reads Cisco devices through the raw stream
ShellBrandSettings ==
  [b \in {tBrandDLink, tBrandHuawei, tBrandCisco, tBrandBdcom} |->
     IF b = tBrandDLink THEN Profile(tShell, tA)
     ELSE IF b = tBrandHuawei THEN Profile(tExec, tSpace)
     ELSE Profile(tShell, tSpace)]

MacScenarios == {
  [devices |-> <<Device(ip1, tBrandDLink, <<>>, <<cmdCfg>>, <<cmdMac, cmdCfg>>)>>,
   settings |-> FallbackBrandSettings,
   scripts |-> {"dplain", "silent"}],
  [devices |-> <<Device(ip1, tBrandHuawei, <<>>, <<cmdCfg>>, <<>>),
                 Device(ip2, tBrandHuawei, <<>>, <<>>, <<cmdMac, cmdCfg>>)>>,
   settings |-> FallbackBrandSettings,
   scripts |-> {"plain"}],
  [devices |-> <<[Device(ip1, tBrandCisco, <<>>, <<>>, <<cmdMac>>) EXCEPT !.enableCommand = tEnable,
                                                                          !.requiresEnable = TRUE]>>,
   settings |-> ShellBrandSettings,
   scripts |-> {"plain"}]
}

MacTablesInit ==
  /\ \E sc \in MacScenarios :
       /\ devices = sc.devices
       /\ brandSettings = sc.settings
       /\ scripts = sc.scripts
  /\ di = NextMacDevice(0)
  /\ opc = IF NextMacDevice(0) > Len(devices) THEN "done" ELSE "mtConnect"
  /\ ci = 1
  /\ connection = "null"
  /\ commandIndex = 0
  /\ totalCommands = 0
  /\ files = [n \in {} |-> <<>>]
  /\ log = <<>>
  /\ rk = "none"
  /\ device = Undefined
  /\ command = <<>>
  /\ isLastCommand = FALSE
  /\ callNo = 0
  /\ outcome = "none"
  /\ value = <<>>
  /\ epc = "none"
  /\ result = <<>>
  /\ attempts = 0
  /\ stream = "none"
  /\ fullResult = <<>>
  /\ isComplete = FALSE
  /\ commandTimeout = FALSE
  /\ inactivityTimer = FALSE
  /\ streamClosed = FALSE
  /\ logoutSent = FALSE
  /\ sendTimer = FALSE
  /\ destroyTimer = "none"
  /\ written = <<>>
  /\ pages = <<>>
  /\ endless = FALSE
  /\ minChunk = 1
  /\ cursor = 0
  /\ completedBy = <<>>
  /\ destroys = 0
  /\ errored = FALSE
  /\ stale = <<>>
  /\ late = <<>>
  /\ effective = Undefined
  /\ BatchIdle

\* after connectToDevice returned the connection
MacTablesAfterLogin == opc' = IF orchBrand(Dev) = tCisco THEN "mtCisco" ELSE "mtMac"

\* connectToDevice up to connection.connect(params); a failure goes to the catch
MacTablesConnect ==
  /\ opc = "mtConnect"
  /\ effective' = getDeviceSettings(Dev, brandSettings)
  /\ \E ok \in BOOLEAN :
       IF ok
       THEN /\ connection' = "open"
            /\ callNo' = 0
            /\ IF (effective'.requiresEnable \/ Dev.requiresEnable) /\ Dev.enableCommand # <<>>
               THEN opc' = "mtEnable"
               ELSE MacTablesAfterLogin
            /\ log' = Append(log, Ev("connected", <<>>, FALSE, 0))
       ELSE /\ opc' = "mtFinally"
            /\ log' = Append(log, Ev("connectFailed", <<>>, FALSE, 0))
            /\ UNCHANGED <<connection, callNo>>
  /\ stale' = <<>> /\ late' = <<>>
  /\ brandSettings' = brandSettingsAfter(Dev, brandSettings)
  /\ UNCHANGED <<devices, scripts, batchVars, di, ci, files, totalCommands, commandIndex>>
  /\ UNCHANGED <<rk, device, command, isLastCommand, outcome, value, execVars, streamVars,
                 written, devVars, ghostVars>>

\* connectToDevice: the privileged-mode entry, its failure tolerated
MacTablesEnable ==
  /\ opc = "mtEnable"
  /\ \E ok \in BOOLEAN :
       log' = Append(log, Ev(IF ok THEN "enabled" ELSE "enableFailed", Dev.enableCommand, FALSE, 0))
  /\ MacTablesAfterLogin
  /\ UNCHANGED <<invVars, connVars, di, ci, connection, files, totalCommands, commandIndex,
                 readerVars>>

\* Cisco: 'terminal length 0' before the MAC command
MacTablesCiscoStart ==
  /\ opc = "mtCisco"
  /\ executeCommand(tTerminalLength0, FALSE)
  /\ opc' = "mtCiscoWait"
  /\ log' = Append(log, Ev("start", tTerminalLength0, FALSE, 0))
  /\ UNCHANGED <<invVars, connVars, di, ci, connection, commandIndex, totalCommands, files>>

MacTablesCiscoFinish ==
  /\ opc = "mtCiscoWait"
  /\ outcome \in {"resolved", "rejected"}
  /\ log' = log \o (IF outcome = "resolved"
                    THEN <<Ev("ok", command, FALSE, 0), Ev("sleep", command, FALSE, 0)>>
                    ELSE <<Ev("failed", command, FALSE, 0)>>)
  /\ opc' = "mtMac"
  /\ UNCHANGED <<invVars, connVars, di, ci, connection, commandIndex, totalCommands, files,
                 readerVars>>

\* the MAC command, called without isLastCommand
MacTablesCommandStart ==
  /\ opc = "mtMac"
  /\ executeCommand(Dev.commands.mac[ci], FALSE)
  /\ log' = Append(log, Ev("start", Dev.commands.mac[ci], FALSE, 0))
  /\ opc' = "mtMacWait"
  /\ UNCHANGED <<invVars, connVars, di, ci, connection, commandIndex, totalCommands, files>>

\* after the await: the table is saved, or the failure goes to the catch
MacTablesCommandFinish ==
  /\ opc = "mtMacWait"
  /\ outcome \in {"resolved", "rejected"}
  /\ IF outcome = "resolved"
     THEN /\ files' = writeFile(files, fileName(Dev.ip, extMac), value)
          /\ log' = Append(log, Ev("saved", command, FALSE, Len(value)))
     ELSE /\ log' = Append(log, Ev("failed", command, FALSE, 0))
          /\ UNCHANGED files
  /\ opc' = "mtFinally"
  /\ UNCHANGED <<invVars, connVars, di, ci, connection, commandIndex, totalCommands, readerVars>>

\* a finally block that keeps the session for the next MAC command of the
\* same device
MacTablesCloseKeepsSession ==
  /\ opc = "mtFinally"
  /\ \E ok \in BOOLEAN :
       log' = log
         \o (IF connection = "open" /\ ci + 1 > Len(Dev.commands.mac)
             THEN IF ok THEN <<Ev("end", <<>>, FALSE, 0)>>
                  ELSE <<Ev("endFailed", <<>>, FALSE, 0)>>
                         \o (IF orchBrand(Dev) = tDLink
                             THEN <<Ev("destroy", <<>>, FALSE, 0)>> ELSE <<>>)
             ELSE <<>>)
         \o (IF orchBrand(Dev) = tDLink THEN <<Ev("pause", <<>>, FALSE, 0)>> ELSE <<>>)
         \o <<Ev("sleep", <<>>, FALSE, 0)>>
  /\ connection' = "null"
  /\ IF ci + 1 <= Len(Dev.commands.mac)
     THEN ci' = ci + 1 /\ di' = di /\ opc' = "mtConnect"
     ELSE /\ ci' = 1
          /\ di' = NextMacDevice(di)
          /\ opc' = IF NextMacDevice(di) <= Len(devices) THEN "mtConnect" ELSE "done"
  /\ UNCHANGED <<invVars, connVars, commandIndex, totalCommands, files, readerVars>>

\* the finally block of one MAC command, the pause, then the next command or
\* the next device that has one
MacTablesClose ==
  /\ opc = "mtFinally"
  /\ \E ok \in BOOLEAN :
       log' = log
         \o (IF connection = "open"
             THEN IF ok THEN <<Ev("end", <<>>, FALSE, 0)>>
                  ELSE <<Ev("endFailed", <<>>, FALSE, 0)>>
                         \o (IF orchBrand(Dev) = tDLink
                             THEN <<Ev("destroy", <<>>, FALSE, 0)>> ELSE <<>>)
             ELSE <<>>)
         \o (IF orchBrand(Dev) = tDLink THEN <<Ev("pause", <<>>, FALSE, 0)>> ELSE <<>>)
         \o <<Ev("sleep", <<>>, FALSE, 0)>>
  /\ connection' = "null"
  /\ IF ci + 1 <= Len(Dev.commands.mac)
     THEN ci' = ci + 1 /\ di' = di /\ opc' = "mtConnect"
     ELSE /\ ci' = 1
          /\ di' = NextMacDevice(di)
          /\ opc' = IF NextMacDevice(di) <= Len(devices) THEN "mtConnect" ELSE "done"
  /\ UNCHANGED <<invVars, connVars, commandIndex, totalCommands, files, readerVars>>

\* the steps of the readers
ReaderNext ==
  \/ ExecSend \/ ExecContinue \/ ExecReturn
  \/ ShellOpen \/ ShellTimeout \/ ShellSend \/ ShellData \/ ShellDestroyTimer
  \/ ShellClose \/ ShellRemoteClose \/ ShellError
  \/ DLinkOpen \/ DLinkTimeout \/ DLinkSend \/ DLinkInactivity \/ DLinkData
  \/ DLinkDestroyTimer \/ DLinkClose \/ DLinkRemoteClose \/ DLinkError
  \/ StaleSend

MacTablesNext ==
  \/ MacTablesConnect \/ MacTablesEnable \/ MacTablesCiscoStart \/ MacTablesCiscoFinish
  \/ MacTablesCommandStart \/ MacTablesCommandFinish \/ MacTablesClose
  \/ ReaderNext

\* main: the collector runs collectConfigs or collectMacTables
CollectSpec == (Init \/ MacTablesInit) /\ [][Next \/ MacTablesNext]_vars

(***************************************************************************)
(* run-all-json.js: runForAllJsonFiles                                     *)
(***************************************************************************)
tDotJson == <<".", "j", "s", "o", "n">>
tBrandSettingsJson == <<"b", "r", "a", "n", "d", "S", "e", "t", "t", "i", "n", "g", "s">> \o tDotJson
tNotesTxt == <<"n", ".", "t", "x", "t">>
tJsonLines == <<"a">> \o tDotJson \o <<"l">>
fileA == <<"a">> \o tDotJson
fileB == <<"b">> \o tDotJson
fileC == <<"c">> \o tDotJson
fileD == <<"d">> \o tDotJson
fileE == <<"e">> \o tDotJson

\* String.prototype.endsWith
endsWith(s, suffix) ==
  /\ Len(s) >= Len(suffix)
  /\ SubSeq(s, Len(s) - Len(suffix) + 1, Len(s)) = suffix

\* what JSON.parse(fs.readFile(...)) of a file of the data directory gives:
\* a device list, a value that is no list, or an error
fileContent(f) ==
  IF f = fileA THEN [kind |-> "list", devices |-> <<Device(ip1, tBrandHuawei, <<>>, <<cmdCfg>>, <<>>)>>]
  ELSE IF f = fileC THEN [kind |-> "list", devices |-> <<Device(ip2, <<>>, tBrandHuawei, <<cmdCfg>>, <<>>)>>]
  ELSE IF f = fileE THEN [kind |-> "list", devices |-> <<>>]
  ELSE IF f = fileD THEN [kind |-> "object", devices |-> <<>>]
  ELSE [kind |-> "error", devices |-> <<>>]

\* the listings fs.readdir(dataDir) may return
Directories == {
  [defined |-> TRUE, files |-> <<tNotesTxt, fileA, tBrandSettingsJson, fileB, fileC>>],
  [defined |-> TRUE, files |-> <<fileD, tJsonLines, fileE>>],
  [defined |-> TRUE, files |-> <<tBrandSettingsJson, tNotesTxt>>],
  [defined |-> TRUE, files |-> <<fileB>>]
}

BatchEv(e) == [ev |-> e, file |-> jsonFiles[fileIndex]]

\* the next iteration of for (const file of jsonFiles), or the end of the loop
NextFile ==
  /\ fileIndex' = fileIndex + 1
  /\ bpc' = IF fileIndex + 1 > Len(jsonFiles) THEN "finished" ELSE "file"

\* this.brandSettingsFile is read, or the built-in settings are used
loadBrandSettings ==
  IF \E i \in 1..Len(dataDir.files) : dataDir.files[i] = tBrandSettingsJson
  THEN FileBrandSettings
  ELSE FallbackBrandSettings

\* the process before runForAllJsonFiles()
BatchInit ==
  /\ dataDir \in Directories
  /\ jsonFiles = <<>>
  /\ fileIndex = 0
  /\ bpc = "start"
  /\ batchLog = <<>>
  /\ devices = <<>>
  /\ brandSettings = FallbackBrandSettings
  /\ scripts = {"plain"}
  /\ di = 1
  /\ opc = "none"
  /\ ci = 1
  /\ connection = "null"
  /\ commandIndex = 0
  /\ totalCommands = 0
  /\ files = [n \in {} |-> <<>>]
  /\ log = <<>>
  /\ rk = "none"
  /\ device = Undefined
  /\ command = <<>>
  /\ isLastCommand = FALSE
  /\ callNo = 0
  /\ outcome = "none"
  /\ value = <<>>
  /\ epc = "none"
  /\ result = <<>>
  /\ attempts = 0
  /\ stream = "none"
  /\ fullResult = <<>>
  /\ isComplete = FALSE
  /\ commandTimeout = FALSE
  /\ inactivityTimer = FALSE
  /\ streamClosed = FALSE
  /\ logoutSent = FALSE
  /\ sendTimer = FALSE
  /\ destroyTimer = "none"
  /\ written = <<>>
  /\ pages = <<>>
  /\ endless = FALSE
  /\ minChunk = 1
  /\ cursor = 0
  /\ completedBy = <<>>
  /\ destroys = 0
  /\ errored = FALSE
  /\ stale = <<>>
  /\ late = <<>>
  /\ effective = Undefined

batchFrame == <<rk, device, command, isLastCommand, callNo, outcome, value, execVars,
                streamVars, written, devVars, ghostVars, staleVars, connVars, files, log,
                scripts, dataDir>>

\* fs.readdir(dataDir), the filter and the empty-list return
runReadDir ==
  /\ bpc = "start"
  /\ \E ok \in BOOLEAN :
       IF ok
       THEN /\ jsonFiles' = SelectSeq(dataDir.files,
                              LAMBDA f : endsWith(f, tDotJson) /\ f # tBrandSettingsJson)
            /\ IF Len(jsonFiles') = 0
               THEN bpc' = "returned" /\ fileIndex' = 0
               ELSE bpc' = "file" /\ fileIndex' = 1
       ELSE /\ bpc' = "exited"
            /\ UNCHANGED <<jsonFiles, fileIndex>>
  /\ UNCHANGED <<batchLog, devices, brandSettings, orchVars, batchFrame>>

\* a failure of one file ends the whole run
runInitFailureEndsRun ==
  /\ bpc = "file"
  /\ LET content == fileContent(jsonFiles[fileIndex]) IN
     \E promptOk \in BOOLEAN :
       IF content.kind = "error" \/ ~promptOk
       THEN /\ batchLog' = batchLog \o <<BatchEv("start"), BatchEv("failed")>>
            /\ fileIndex' = fileIndex + 1
            /\ bpc' = "finished"
            /\ UNCHANGED <<devices, brandSettings, di, opc, ci, connection,
                           commandIndex, totalCommands>>
       ELSE /\ batchLog' = Append(batchLog, BatchEv("start"))
            /\ devices' = content.devices
            /\ brandSettings' = loadBrandSettings
            /\ bpc' = "initialized"
            /\ di' = 1 /\ ci' = 1 /\ opc' = "none" /\ connection' = "null"
            /\ commandIndex' = 0 /\ totalCommands' = 0
            /\ UNCHANGED fileIndex
  /\ UNCHANGED <<jsonFiles, batchFrame>>

\* one iteration up to the end of collector.init(): a new collector whose
\* devicesFile is the file; loadDevices or the password prompt may throw,
\* which the catch of the iteration logs
runInit ==
  /\ bpc = "file"
  /\ LET content == fileContent(jsonFiles[fileIndex]) IN
     \E promptOk \in BOOLEAN :
       IF content.kind = "error" \/ ~promptOk
       THEN /\ batchLog' = batchLog \o <<BatchEv("start"), BatchEv("failed")>>
            /\ NextFile
            /\ UNCHANGED <<devices, brandSettings, di, opc, ci, connection,
                           commandIndex, totalCommands>>
       ELSE /\ batchLog' = Append(batchLog, BatchEv("start"))
            /\ devices' = content.devices
            /\ brandSettings' = loadBrandSettings
            /\ bpc' = "initialized"
            /\ di' = 1 /\ ci' = 1 /\ opc' = "none" /\ connection' = "null"
            /\ commandIndex' = 0 /\ totalCommands' = 0
            /\ UNCHANGED fileIndex
  /\ UNCHANGED <<jsonFiles, batchFrame>>

\* collector.collectAll() is called: for (const device of this.devices)
\* throws when the file held no list
runCollectAll ==
  /\ bpc = "initialized"
  /\ IF fileContent(jsonFiles[fileIndex]).kind # "list"
     THEN /\ batchLog' = Append(batchLog, BatchEv("failed"))
          /\ NextFile
          /\ UNCHANGED opc
     ELSE /\ bpc' = "collect"
          /\ opc' = IF Len(devices) = 0 THEN "done" ELSE "connect"
          /\ UNCHANGED <<batchLog, fileIndex>>
  /\ UNCHANGED <<jsonFiles, devices, brandSettings, di, ci, connection, commandIndex,
                 totalCommands, batchFrame>>

\* collector.collectAll() returned
runCollected ==
  /\ bpc = "collect"
  /\ opc = "done"
  /\ batchLog' = Append(batchLog, BatchEv("completed"))
  /\ NextFile
  /\ opc' = "none"
  /\ UNCHANGED <<jsonFiles, devices, brandSettings, di, ci, connection, commandIndex,
                 totalCommands, batchFrame>>

BatchNext == runReadDir \/ runInit \/ runCollectAll \/ runCollected

\* a collector started by main() or by runForAllJsonFiles()
BatchSpec == (Init \/ BatchInit) /\ [][Next \/ BatchNext]_vars

\* some pattern of the device's own list matches the text
ListMatches(prompts, output) == \E i \in 1..Len(prompts) : PatternTest(prompts[i], output)

\* C21: for a device that defines paginationPrompts, needsMoreInput decides
\* by exactly that list: a continuation is sent only for a reply the list
\* matches, and a reply the list matches is never returned as complete
\* before the ceiling; the brand family patterns have no say.
C21_ExplicitListDecides ==
  device.paginationPrompts # Undefined =>
    /\ attempts > 0 => ListMatches(device.paginationPrompts.list, pages[2])
    /\ outcome = "resolved" /\ attempts < maxAttempts
         => ~ListMatches(device.paginationPrompts.list, result)

\* connectToDevice has resolved the settings of the device
Resolved == opc # "connect"

\* C22: a device that carries a connectionSettings object gets exactly that
\* object for its settings: no brand profile and no timeout field of the
\* device changes any of its fields.
C22_OverrideReturnedUnchanged ==
  Resolved /\ Dev.connectionSettings # Undefined => effective = Dev.connectionSettings

C22_Witness ==
  /\ Resolved /\ Dev.connectionSettings = OverrideProfile
  /\ Dev.brand = tBrandCisco /\ Dev.timeout = 7000 /\ Dev.commandTimeout = 0
  /\ effective.timeout = 1234 /\ effective.commandTimeout = 2345
  /\ effective.connectionMethod = tShell

\* the profile the resolver starts from for a device without an override
SelectedBase(d) ==
  IF d.brand # <<>> /\ d.brand \in DOMAIN brandSettings THEN brandSettings[d.brand]
  ELSE IF d.brand = <<>> /\ d.vendor \in DOMAIN brandSettings THEN brandSettings[d.vendor]
  ELSE DefaultProfile

TimeoutFields == {"timeout", "commandTimeout", "execTimeout", "shellTimeout"}

\* C23: without an override object, every timeout-class field the device
\* sets (to anything but null) has the device's value in the settings, and
\* every other field of the settings is that of the selected base profile.
C23_DeviceTimeoutsWin ==
  Resolved /\ Dev.connectionSettings = Undefined =>
    /\ DOMAIN effective = DOMAIN SelectedBase(Dev)
    /\ \A f \in DOMAIN effective :
         effective[f] = IF f \in TimeoutFields /\ Dev[f] # NoNumber THEN Dev[f]
                        ELSE SelectedBase(Dev)[f]

C23_Witness ==
  /\ Resolved /\ Dev.connectionSettings = Undefined /\ Dev.brand = tBrandCisco
  /\ Dev.timeout = NoNumber /\ Dev.commandTimeout = 0
  /\ Dev.execTimeout = 7000 /\ Dev.shellTimeout = 7000
  /\ effective.commandTimeout = 0 /\ effective.shellTimeout = 7000
  /\ effective.timeout = brandSettings[tBrandCisco].timeout
  /\ effective.connectionMethod = tExec

\* C24: the resolver always yields settings; without an override object it
\* starts from the brandSettings entry of the device's brand, of its vendor
\* when the brand is absent, and from the hardcoded default (exec reader,
\* blank continuation input, no privileged mode) when no entry matches or
\* both are absent.
C24_BaseSelection ==
  Resolved =>
    /\ effective # Undefined
    /\ Dev.connectionSettings = Undefined =>
         LET Same(p) == \A f \in {"connectionMethod", "paginationInput", "requiresEnable"} :
                          effective[f] = p[f]
         IN /\ Dev.brand \in DOMAIN brandSettings => Same(brandSettings[Dev.brand])
            /\ Dev.brand = <<>> /\ Dev.vendor \in DOMAIN brandSettings
                 => Same(brandSettings[Dev.vendor])
            /\ (Dev.brand # <<>> /\ Dev.brand \notin DOMAIN brandSettings)
                 \/ (Dev.brand = <<>> /\ Dev.vendor \notin DOMAIN brandSettings)
                 => /\ effective.connectionMethod = tExec
                    /\ effective.paginationMethod = tExec
                    /\ effective.paginationInput = tSpace
                    /\ effective.requiresEnable = FALSE
                    /\ effective.shellPrompt = tShellPrompt
                    /\ \A f \in TimeoutFields \ {"shellTimeout"} :
                         Dev[f] = NoNumber =>
                           effective[f] = (IF f = "commandTimeout" THEN 10000 ELSE 30000)

C24_Witness ==
  /\ Resolved /\ Dev.connectionSettings = Undefined
  /\ Dev.brand = <<>> /\ Dev.vendor = tBrandZyxel
  /\ \A f \in TimeoutFields : Dev[f] = NoNumber
  /\ effective.connectionMethod = tExec /\ effective.timeout = 30000
  /\ opc = "finally"

\* C25: when the privileged-mode entry command fails after a successful
\* connect, the connection is kept and every command of the device's
\* sequence is still executed: the failure is not propagated.
C25_EnableFailureTolerated ==
  \A d \in 1..Len(devices) :
    Len(Events(d, {"enableFailed"})) = 1 =>
      /\ Len(Events(d, {"connected"})) = 1
      /\ Len(Events(d, {"connectFailed"})) = 0
      /\ IsPrefix(Started(d), ExpectedCommands(devices[d]))
      /\ CommandsOver(d) => Started(d) = ExpectedCommands(devices[d])
      /\ d = di /\ opc \notin {"finally", "done"} => connection = "open"

C25_Witness ==
  /\ opc = "done"
  /\ Len(Events(1, {"enableFailed"})) = 1
  /\ Started(1) = <<tTerminalLength0, cmdCfg>>
  /\ Len(Events(1, {"saved"})) = 1

\* C26: whenever the settings of a device require privileged mode, an enable
\* command is executed after the connection is established and before any
\* command of the device's sequence.
C26_EnableBeforeCommands ==
  \A d \in 1..Len(devices) :
    /\ Len(Events(d, {"connected"})) = 1
    /\ getDeviceSettings(devices[d], brandSettings).requiresEnable
    /\ \E j \in 1..Len(log) :
         log[j].dev = d /\ log[j].ev = "start" /\ log[j].cmd # tTerminalLength0
    => \E i \in 1..Len(log) :
         /\ log[i].dev = d /\ log[i].ev \in {"enabled", "enableFailed"}
         /\ \E c \in 1..(i - 1) : log[c].dev = d /\ log[c].ev = "connected"
         /\ \A j \in 1..Len(log) : log[j].dev = d /\ log[j].ev = "start" => i < j

\* an outcome event of a command whose iteration ran through
SuccessEvents == {"saved", "ok", "appended"}

Closings == {"end", "endFailed"}
CountEv(kinds) == Len(SelectSeq(log, LAMBDA e : e.ev \in kinds))

\* C28: on teardown of a device run, in collectConfigs and collectMacTables,
\* the session close is attempted for every established connection, and the
\* transport is destroyed exactly when the close failed and the brand is
\* D-Link; neither failure is propagated: the run goes on to the next
\* connection.
C28_TeardownClosesAndAborts ==
  /\ CountEv({"connected"}) = CountEv(Closings) + (IF connection = "open" THEN 1 ELSE 0)
  /\ opc \in {"connect", "mtConnect", "done"} => connection = "null"
  /\ \A i \in 1..Len(log) :
       /\ log[i].ev \in Closings =>
            \E c \in 1..(i - 1) :
              /\ log[c].ev = "connected" /\ log[c].dev = log[i].dev
              /\ \A k \in (c + 1)..(i - 1) : log[k].ev \notin Closings \cup {"connected"}
       /\ log[i].ev = "destroy" =>
            /\ i > 1 /\ log[i - 1].ev = "endFailed" /\ log[i - 1].dev = log[i].dev
            /\ orchBrand(devices[log[i].dev]) = tDLink
       /\ log[i].ev = "endFailed" /\ orchBrand(devices[log[i].dev]) = tDLink =>
            i < Len(log) /\ log[i + 1].ev = "destroy"

C28_Witness ==
  /\ opc = "mtMac" /\ connection = "open"
  /\ CountEv({"destroy"}) = 1 /\ CountEv({"endFailed"}) = 1 /\ CountEv({"connected"}) = 2
  /\ orchBrand(Dev) = tDLink

\* the replies of the first k connection.exec calls of the current command, joined
RECURSIVE JoinedReplies(_)
JoinedReplies(k) == IF k = 0 THEN <<>> ELSE JoinedReplies(k - 1) \o execReply(k)

\* C29: executeCommandWithExec sends at most 200 continuation inputs for a
\* command, whatever the replies, and the ceiling is no failure: the command
\* returns all replies received, joined.
C29_CeilingReturnsAccumulated ==
  rk = "exec" =>
    /\ attempts <= 200
    /\ PageWrites = attempts
    /\ outcome = "resolved" => value = JoinedReplies(attempts + 1)
    /\ epc = "done" /\ attempts = 200 => outcome = "resolved"

C29_Witness ==
  /\ rk = "exec" /\ attempts = 200 /\ outcome = "resolved"
  /\ PageWrites = 200 /\ Len(value) > 200

\* a send or receive of the exec reader failed in this step
ExecFailureStep ==
  /\ rk = "exec" /\ epc # "done" /\ epc' = "done"
  /\ epc = "send" \/ (needsMoreInput(result, device) /\ attempts < maxAttempts)

\* C30: when the initial send or a continuation send/receive of
\* executeCommandWithExec fails, the command fails and none of the text
\* received so far is returned.
C30_ExecFailureFailsCommand ==
  /\ [](rk = "exec" /\ outcome = "rejected" => value = <<>>)
  /\ [][ExecFailureStep => outcome' = "rejected" /\ value' = <<>>]_vars

C30_Witness ==
  /\ rk = "exec" /\ epc = "done" /\ outcome = "rejected"
  /\ attempts >= 1 /\ Len(result) > 0 /\ value = <<>>


\* the files of the data directory that are device files: the name ends in
\* ".json" and is not brandSettings.json
IsDeviceFile(f) ==
  /\ Len(f) >= 5
  /\ \A i \in 1..5 : f[Len(f) - 5 + i] = tDotJson[i]
  /\ f # tBrandSettingsJson
DeviceFiles == SelectSeq(dataDir.files, IsDeviceFile)
BatchStarted == SelectSeq(batchLog, LAMBDA e : e.ev = "start")
BatchEnded == SelectSeq(batchLog, LAMBDA e : e.ev \in {"completed", "failed"})

\* C31: runForAllJsonFiles runs the collection once for every .json file of
\* the data directory except brandSettings.json, in the order of the
\* listing; a file whose initialization or collection fails is logged as
\* failed and the loop goes on with the next file, so that when the run
\* ends every device file was started once and has one logged result.
C31_EveryDeviceFileProcessed ==
  bpc \in {"file", "initialized", "collect", "finished", "returned"} =>
    /\ Len(BatchStarted) <= Len(DeviceFiles)
    /\ \A i \in 1..Len(BatchStarted) : BatchStarted[i].file = DeviceFiles[i]
    /\ Len(BatchEnded) \in {Len(BatchStarted), Len(BatchStarted) - 1}
    /\ \A i \in 1..Len(BatchEnded) : BatchEnded[i].file = DeviceFiles[i]
    /\ bpc = "file" => Len(BatchEnded) = Len(BatchStarted) /\ Len(BatchStarted) < Len(DeviceFiles)
    /\ bpc \in {"finished", "returned"} =>
         Len(BatchStarted) = Len(DeviceFiles) /\ Len(BatchEnded) = Len(DeviceFiles)

\* a run over a directory that holds brandSettings.json ended after a file
\* that failed was followed by one whose devices were contacted
C31_Witness ==
  /\ bpc = "finished"
  /\ \E i \in 1..Len(dataDir.files) : dataDir.files[i] = tBrandSettingsJson
  /\ \E i, j \in 1..Len(BatchEnded) :
       i < j /\ BatchEnded[i].ev = "failed" /\ BatchEnded[j].ev = "completed"
  /\ \E k \in 1..Len(log) : log[k].ev = "connected"

\* C32: for a D-Link device with appendMissingConfig the remediation command
\* that follows the configuration commands is the configuration command
\* configured for that device, run a second time.
C32_RemediationRepeatsConfigCommand ==
  opc = "appendWait" =>
    \E i \in 1..Len(Dev.commands.config) : command = Dev.commands.config[i]

\* C33: every pagination continuation keystroke written by a reader (exec,
\* shell or D-Link) is the paginationInput of the effective profile of the
\* device, whenever that profile defines one.
C33_ContinuationIsProfileInput ==
  rk \in {"exec", "shell", "dlink"} =>
    LET profile == getDeviceSettings(device, brandSettings) IN
    profile.paginationInput # <<>> =>
      \A i \in 1..Len(written) :
        written[i].kind = "page" => written[i].text = profile.paginationInput

\* C34: in the raw-stream readers completion is terminal: once the command
\* is marked complete, no continuation keystroke is written for it any more,
\* whatever arrives before the channel closes.
C34_NoContinuationAfterCompletion ==
  [][(rk \in RawReaders /\ isComplete /\ isComplete') => PageWrites' = PageWrites]_vars

\* C35: in the raw-stream readers nothing is decided during the settle delay
\* that precedes the command write: while the command has not been written,
\* no chunk has caused a continuation keystroke or a completion.
C35_NothingDecidedBeforeSend ==
  (rk \in RawReaders /\ sendTimer) =>
    /\ PageWrites = 0
    /\ \A i \in 1..Len(completedBy) : completedBy[i] # "prompt"

\* the brandSettings maps a collector is started with
LoadedBrandSettings == {FallbackBrandSettings, FileBrandSettings}

\* C36: resolving the effective profile never modifies the brand-profile
\* map: brandSettings stays the map that was loaded, whatever devices were
\* resolved, and a device without connectionSettings and without timeout
\* fields of its own whose brand has an entry receives exactly that entry.
C36_BrandSettingsNeverModified ==
  /\ [][brandSettings' = brandSettings]_vars
  /\ [](/\ brandSettings \in LoadedBrandSettings
        /\ (/\ Resolved /\ di <= Len(devices)
            /\ Dev.connectionSettings = Undefined
            /\ \A k \in 1..Len(TimeoutKeys) : Dev[TimeoutKeys[k]] = NoNumber
            /\ SelectedBase(Dev) # DefaultProfile)
           => effective = SelectedBase(Dev))

\* the second of two devices of one brand was resolved after a first device
\* whose own timeout fields differ from the brand entry
C36_Witness ==
  /\ Len(devices) = 2 /\ di = 2 /\ Resolved
  /\ devices[1].brand = devices[2].brand
  /\ devices[1].brand \in DOMAIN brandSettings
  /\ devices[1].timeout # NoNumber
  /\ devices[1].timeout # brandSettings[devices[1].brand].timeout
  /\ \A k \in 1..Len(TimeoutKeys) : devices[2][TimeoutKeys[k]] = NoNumber
  /\ effective = brandSettings[devices[2].brand]

\* the events among the first n of the log whose kind is one of kinds
CountBefore(n, kinds) == Len(SelectSeq(SubSeq(log, 1, n), LAMBDA e : e.ev \in kinds))

\* C37: in collectConfigs and collectMacTables at most one session is open
\* at any time: when a connection is established, the close of every
\* connection established before it has already been attempted, whatever
\* the commands run on it came to.
C37_OneSessionAtATime ==
  \A i \in 1..Len(log) :
    log[i].ev = "connected" =>
      CountBefore(i - 1, {"connected"}) = CountBefore(i - 1, Closings)

\* a collectMacTables run holds its second connection after a command of
\* the first one failed
C37_Witness ==
  /\ opc \in {"mtMac", "mtMacWait", "mtFinally"} /\ connection = "open"
  /\ CountEv({"connected"}) = 2
  /\ CountEv(Closings) = 1
  /\ \E i, j \in 1..Len(log) :
       i < j /\ log[i].ev = "failed" /\ log[j].ev \in Closings

\* C38: all components agree on whether a device belongs to the D-Link
\* family: for the device of a command in progress, the orchestrator applies
\* its D-Link handling exactly when needsMoreInput selects the D-Link pattern
\* family, and, for a raw-stream profile, exactly when executeCommandWithShell
\* dispatches to the D-Link reader.
C38_DLinkFamilyAgreed ==
  rk \in {"exec", "shell", "dlink"} =>
    /\ (orchBrand(device) = tDLink) <=> (patternsFor(device) = dlinkPatterns)
    /\ rk \in RawReaders => ((orchBrand(device) = tDLink) <=> (rk = "dlink"))
====
